---- MODULE Spec2Model ----
(***************************************************************************)
(* Verification model of lib_layered_config.                               *)
(*                                                                         *)
(* Python objects live in a heap: a sequence of objects addressed by their *)
(* index.  A dict is an insertion-ordered sequence of items [k, v]; a list *)
(* is a sequence of items whose k is unused.  A value is a scalar, a       *)
(* reference to a heap object, or None.                                    *)
(*                                                                         *)
(* A key is a sequence of atoms: the key's text split at every "." (a key  *)
(* without a dot is a single atom).  The dotted key of a path is the       *)
(* concatenation of the atoms of its keys, which is exactly what           *)
(* ".".join(...) produces, and `s.startswith(p + ".")` is `p is a proper   *)
(* atom-prefix of s`.                                                      *)
(***************************************************************************)
EXTENDS Integers, Sequences, FiniteSets, TLC

VARIABLES heap, layers, desc, pc, ret, world

vars == <<heap, layers, desc, pc, ret, world>>

(***************************************************************************)
(* Bounds of the explored inputs.                                          *)
(***************************************************************************)
\* Scalars are 1..MaxScalar.
MaxScalar == 2
\* The payloads of one input hold at most MaxSize entries in total (a payload
\* without entries counts as one).
MaxSize == 3
\* A sequence of layers is at most MaxLayers long.
MaxLayers == 3
\* Entries of a config.d directory.
MaxEntries == 3

(***************************************************************************)
(* Values and heap objects.                                                *)
(***************************************************************************)
Scalar(n) == [t |-> "scalar", n |-> n]
Ref(id) == [t |-> "ref", n |-> id]
None == [t |-> "none", n |-> 0]

EmptyDict == [kind |-> "dict", items |-> <<>>]
ListOf(n) == [kind |-> "list", items |-> <<[k |-> <<>>, v |-> Scalar(n)]>>]

Alloc(h, obj) == Append(h, obj)

Max(S) == CHOOSE x \in S : \A y \in S : y <= x

\* The element of a one-element set.  The({F(x) : x \in {e}}) is F(e) with
\* e evaluated once.
The(S) == CHOOSE x \in S : TRUE

IsMapping(h, val) == val.t = "ref" /\ h[val.n].kind = "dict"

IndexOf(items, key) ==
    IF \E i \in 1..Len(items) : items[i].k = key
    THEN CHOOSE i \in 1..Len(items) : items[i].k = key
    ELSE 0

DictGet(h, d, key) ==
    LET i == IndexOf(h[d].items, key)
    IN  IF i = 0 THEN None ELSE h[d].items[i].v

DictSet(h, d, key, val) ==
    LET its == h[d].items
        i == IndexOf(its, key)
    IN  [h EXCEPT ![d].items =
            IF i = 0 THEN Append(its, [k |-> key, v |-> val])
            ELSE [its EXCEPT ![i].v = val]]

DictPop(h, d, key) ==
    LET its == h[d].items
        i == IndexOf(its, key)
    IN  IF i = 0 THEN h
        ELSE [h EXCEPT ![d].items =
                SubSeq(its, 1, i - 1) \o SubSeq(its, i + 1, Len(its))]

RECURSIVE deepcopy(_, _), deepcopy_items(_, _, _)
deepcopy_items(h, items, acc) ==
    IF items = <<>> THEN [h |-> h, items |-> acc]
    ELSE LET it == Head(items)
         IN  IF it.v.t = "ref"
             THEN LET c == deepcopy(h, it.v.n)
                  IN  deepcopy_items(c.h, Tail(items),
                                     Append(acc, [k |-> it.k, v |-> Ref(c.id)]))
             ELSE deepcopy_items(h, Tail(items), Append(acc, it))

deepcopy(h, id) ==
    LET r == deepcopy_items(h, h[id].items, <<>>)
    IN  [h |-> Alloc(r.h, [kind |-> h[id].kind, items |-> r.items]),
         id |-> Len(r.h) + 1]

(***************************************************************************)
(* application/merge.py                                                    *)
(***************************************************************************)
RECURSIVE Join(_)
Join(segments) ==
    IF segments = <<>> THEN <<>> ELSE Head(segments) \o Join(Tail(segments))

\* Mutant: the dotted key forgets the enclosing segments.
_dotted_key_without_segments(segments, key) == key

_dotted_key(segments, key) ==
    IF segments # <<>> THEN Join(Append(segments, key)) ELSE key

StartsWithDot(s, prefix) ==
    Len(s) > Len(prefix) /\ SubSeq(s, 1, Len(prefix)) = prefix

\* Mutant: only the entry of the prefix itself is removed, not its descendants.
_clear_branch_exact(m, prefix) ==
    [k \in {mk \in DOMAIN m : mk # prefix} |-> m[k]]

_clear_branch(m, prefix) ==
    [k \in {mk \in DOMAIN m : ~(mk = prefix \/ StartsWithDot(mk, prefix))} |-> m[k]]

\* Mutant: an existing provenance entry is kept instead of being rewritten.
_set_scalar_keeps_origin(h, m, target, key, value, dotted, layer, path) ==
    [h |-> DictSet(h, target, key, value),
     meta |-> IF dotted \in DOMAIN m THEN m
              ELSE (dotted :> [layer |-> layer, path |-> path, key |-> dotted])
                       @@ _clear_branch(m, dotted)]

\* Mutant: a key that is already set keeps its value (setdefault).
_set_scalar_first_wins(h, m, target, key, value, dotted, layer, path) ==
    IF IndexOf(h[target].items, key) # 0 THEN [h |-> h, meta |-> m]
    ELSE [h |-> DictSet(h, target, key, value),
          meta |-> (dotted :> [layer |-> layer, path |-> path, key |-> dotted])
                       @@ _clear_branch(m, dotted)]

_set_scalar(h, m, target, key, value, dotted, layer, path) ==
    LET cleared == _clear_branch(m, dotted)
    IN  [h |-> DictSet(h, target, key, value),
         meta |-> (dotted :> [layer |-> layer, path |-> path, key |-> dotted])
                      @@ cleared]

EmptyMeta == [k \in {} |-> None]

RECURSIVE _merge_mapping(_, _, _, _, _, _, _)
RECURSIVE _merge_branch(_, _, _, _, _, _, _, _, _)
RECURSIVE _merge_items(_, _, _, _, _, _, _)

\* Mutant: an empty mapping resets the branch at the top level too.
_merge_branch_always_resets(h, m, target, key, value, dotted, layer, path, segments) ==
    LET existing == DictGet(h, target, key)
        h1 == Alloc(h, h[value])
        payload == Len(h1)
    IN  IF h[value].items = <<>>
        THEN LET h2 == Alloc(h1, EmptyDict)
             IN  [h |-> DictSet(h2, target, key, Ref(Len(h2))),
                  meta |-> _clear_branch(m, dotted)]
        ELSE LET created_new == ~IsMapping(h1, existing)
                 h2 == Alloc(h1, IF created_new THEN EmptyDict ELSE h1[existing.n])
                 container == Len(h2)
                 m2 == IF created_new THEN _clear_branch(m, dotted) ELSE m
                 h3 == DictSet(h2, target, key, Ref(container))
                 r == _merge_mapping(h3, m2, container, payload, layer, path,
                                     Append(segments, key))
             IN  IF created_new /\ r.h[container].items = <<>>
                 THEN [h |-> DictPop(r.h, target, key), meta |-> r.meta]
                 ELSE r

\* Mutant: the existing mapping is replaced by a fresh one, not merged into.
_merge_branch_replaces(h, m, target, key, value, dotted, layer, path, segments) ==
    LET existing == DictGet(h, target, key)
        h1 == Alloc(h, h[value])
        payload == Len(h1)
    IN  IF h[value].items = <<>>
        THEN IF IsMapping(h1, existing) /\ segments = <<>>
             THEN [h |-> h1, meta |-> m]
             ELSE LET h2 == Alloc(h1, EmptyDict)
                  IN  [h |-> DictSet(h2, target, key, Ref(Len(h2))),
                       meta |-> _clear_branch(m, dotted)]
        ELSE LET h2 == Alloc(h1, EmptyDict)
                 container == Len(h2)
                 h3 == DictSet(h2, target, key, Ref(container))
                 r == _merge_mapping(h3, _clear_branch(m, dotted), container, payload,
                                     layer, path, Append(segments, key))
             IN  IF r.h[container].items = <<>>
                 THEN [h |-> DictPop(r.h, target, key), meta |-> r.meta]
                 ELSE r

\* Mutant: a branch that had to be created is popped again even when the
\* merge filled it (the `and not container` of the last test is lost).
_merge_branch_pops_created(h, m, target, key, value, dotted, layer, path, segments) ==
    LET existing == DictGet(h, target, key)
        h1 == Alloc(h, h[value])
        payload == Len(h1)
    IN  IF h[value].items = <<>>
        THEN IF IsMapping(h1, existing) /\ segments = <<>>
             THEN [h |-> h1, meta |-> m]
             ELSE LET h2 == Alloc(h1, EmptyDict)
                  IN  [h |-> DictSet(h2, target, key, Ref(Len(h2))),
                       meta |-> _clear_branch(m, dotted)]
        ELSE LET created_new == ~IsMapping(h1, existing)
                 h2 == Alloc(h1, IF created_new THEN EmptyDict ELSE h1[existing.n])
                 container == Len(h2)
                 m2 == IF created_new THEN _clear_branch(m, dotted) ELSE m
                 h3 == DictSet(h2, target, key, Ref(container))
                 r == _merge_mapping(h3, m2, container, payload, layer, path,
                                     Append(segments, key))
             IN  IF created_new
                 THEN [h |-> DictPop(r.h, target, key), meta |-> r.meta]
                 ELSE r

\* Mutant: an empty incoming mapping leaves an existing mapping alone at
\* every depth (the `and not segments` of the guard is lost).
_merge_branch_keeps_nested(h, m, target, key, value, dotted, layer, path, segments) ==
    LET existing == DictGet(h, target, key)
        h1 == Alloc(h, h[value])
        payload == Len(h1)
    IN  IF h[value].items = <<>>
        THEN IF IsMapping(h1, existing)
             THEN [h |-> h1, meta |-> m]
             ELSE LET h2 == Alloc(h1, EmptyDict)
                  IN  [h |-> DictSet(h2, target, key, Ref(Len(h2))),
                       meta |-> _clear_branch(m, dotted)]
        ELSE LET created_new == ~IsMapping(h1, existing)
                 h2 == Alloc(h1, IF created_new THEN EmptyDict ELSE h1[existing.n])
                 container == Len(h2)
                 m2 == IF created_new THEN _clear_branch(m, dotted) ELSE m
                 h3 == DictSet(h2, target, key, Ref(container))
                 r == _merge_mapping(h3, m2, container, payload, layer, path,
                                     Append(segments, key))
             IN  IF created_new /\ r.h[container].items = <<>>
                 THEN [h |-> DictPop(r.h, target, key), meta |-> r.meta]
                 ELSE r

_merge_branch(h, m, target, key, value, dotted, layer, path, segments) ==
    LET existing == DictGet(h, target, key)
        h1 == Alloc(h, h[value])
        payload == Len(h1)
    IN  IF h[value].items = <<>>
        THEN IF IsMapping(h1, existing) /\ segments = <<>>
             THEN [h |-> h1, meta |-> m]
             ELSE LET h2 == Alloc(h1, EmptyDict)
                  IN  [h |-> DictSet(h2, target, key, Ref(Len(h2))),
                       meta |-> _clear_branch(m, dotted)]
        ELSE LET created_new == ~IsMapping(h1, existing)
                 h2 == Alloc(h1, IF created_new THEN EmptyDict ELSE h1[existing.n])
                 container == Len(h2)
                 m2 == IF created_new THEN _clear_branch(m, dotted) ELSE m
                 h3 == DictSet(h2, target, key, Ref(container))
                 r == _merge_mapping(h3, m2, container, payload, layer, path,
                                     Append(segments, key))
             IN  IF created_new /\ r.h[container].items = <<>>
                 THEN [h |-> DictPop(r.h, target, key), meta |-> r.meta]
                 ELSE r

_merge_items(h, m, target, items, layer, path, segments) ==
    IF items = <<>> THEN [h |-> h, meta |-> m]
    ELSE LET key == Head(items).k
             value == Head(items).v
             dotted == _dotted_key(segments, key)
             r == IF IsMapping(h, value)
                  THEN _merge_branch(h, m, target, key, value.n, dotted,
                                     layer, path, segments)
                  ELSE _set_scalar(h, m, target, key, value, dotted, layer, path)
         IN  _merge_items(r.h, r.meta, target, Tail(items), layer, path, segments)

_merge_mapping(h, m, target, incoming, layer, path, segments) ==
    _merge_items(h, m, target, h[incoming].items, layer, path, segments)

\* Mutant: the payload is copied one level deep only (dict(payload)).
_merge_layer_shallow(h, m, target, payload, layer, path) ==
    LET h1 == Alloc(h, h[payload])
    IN  _merge_mapping(h1, m, target, Len(h1), layer, path, <<>>)

_merge_layer(h, m, target, payload, layer, path) ==
    LET h1 == Alloc(h, h[payload])
        clone == deepcopy(h1, Len(h1))
    IN  _merge_mapping(clone.h, m, target, clone.id, layer, path, <<>>)

RECURSIVE _fold_layers(_, _, _, _)
_fold_layers(h, m, target, ls) ==
    IF ls = <<>> THEN [h |-> h, meta |-> m]
    ELSE LET r == _merge_layer(h, m, target, Head(ls).data, Head(ls).name,
                               Head(ls).path)
         IN  _fold_layers(r.h, r.meta, target, Tail(ls))

merge_layers(h, ls) ==
    LET h0 == Alloc(h, EmptyDict)
        r == _fold_layers(h0, EmptyMeta, Len(h0), ls)
    IN  [h |-> r.h, merged |-> Len(h0), meta |-> r.meta]

(***************************************************************************)
(* domain/config.py                                                        *)
(***************************************************************************)
NoSource == [layer |-> "None", path |-> "None", key |-> <<>>]

_freeze_mapping(h, mapping) == Alloc(h, h[mapping])

Config(h, data, m) ==
    LET h1 == _freeze_mapping(h, data)
    IN  [h |-> h1, data |-> Len(h1), meta |-> m]

\* What an accessor yields when it raises instead of returning.
Raised == [t |-> "raise", n |-> 0]

\* Mutant: no isinstance check, so a lookup inside a scalar or a list raises.
RECURSIVE _resolve_parts_unchecked(_, _, _, _)
_resolve_parts_unchecked(h, current, parts, default) ==
    IF parts = <<>> THEN current
    ELSE IF ~IsMapping(h, current) THEN Raised
         ELSE IF IndexOf(h[current.n].items, <<Head(parts)>>) = 0 THEN default
              ELSE _resolve_parts_unchecked(h, DictGet(h, current.n, <<Head(parts)>>),
                                            Tail(parts), default)

RECURSIVE _resolve_parts(_, _, _, _)
_resolve_parts(h, current, parts, default) ==
    IF parts = <<>> THEN current
    ELSE IF ~IsMapping(h, current) \/ IndexOf(h[current.n].items, <<Head(parts)>>) = 0
         THEN default
         ELSE _resolve_parts(h, DictGet(h, current.n, <<Head(parts)>>), Tail(parts),
                             default)

\* dotted.split(".") is the sequence of atoms of the dotted key.
_resolve_dotted_path(h, source, dotted, default) ==
    _resolve_parts(h, Ref(source), dotted, default)

get(cfg, key, default) == _resolve_dotted_path(cfg.h, cfg.data, key, default)

origin(cfg, key) == IF key \in DOMAIN cfg.meta THEN cfg.meta[key] ELSE NoSource

\* config[key]: the top-level value itself, or KeyError.
__getitem__(cfg, key) ==
    IF IndexOf(cfg.h[cfg.data].items, key) = 0 THEN Raised
    ELSE DictGet(cfg.h, cfg.data, key)

RECURSIVE _deepcopy_mapping(_, _), _deepcopy_value(_, _), _deepcopy_each(_, _, _)
_deepcopy_each(h, items, acc) ==
    IF items = <<>> THEN [h |-> h, items |-> acc]
    ELSE LET c == _deepcopy_value(h, Head(items).v)
         IN  _deepcopy_each(c.h, Tail(items), Append(acc, [k |-> Head(items).k, v |-> c.v]))

_deepcopy_value(h, v) ==
    IF v.t # "ref" THEN [h |-> h, v |-> v]
    ELSE IF h[v.n].kind = "dict"
         THEN LET c == _deepcopy_mapping(h, v.n)
              IN  [h |-> c.h, v |-> Ref(c.id)]
         ELSE LET r == _deepcopy_each(h, h[v.n].items, <<>>)
              IN  [h |-> Alloc(r.h, [kind |-> "list", items |-> r.items]),
                   v |-> Ref(Len(r.h) + 1)]

\* Mutant: dict(mapping), the nested values stay shared.
_deepcopy_mapping_shallow(h, id) == [h |-> Alloc(h, h[id]), id |-> Len(h) + 1]

_deepcopy_mapping(h, id) ==
    LET r == _deepcopy_each(h, h[id].items, <<>>)
    IN  [h |-> Alloc(r.h, [kind |-> "dict", items |-> r.items]), id |-> Len(r.h) + 1]

as_dict(cfg) == _deepcopy_mapping(cfg.h, cfg.data)

\* dict.update(items)
RECURSIVE update(_, _, _)
update(h, d, items) ==
    IF items = <<>> THEN h
    ELSE update(DictSet(h, d, Head(items).k, Head(items).v), d, Tail(items))

\* dict.setdefault for every item: keys already present keep their value.
RECURSIVE setdefaults(_, _, _)
setdefaults(h, d, items) ==
    IF items = <<>> THEN h
    ELSE setdefaults(IF IndexOf(h[d].items, Head(items).k) = 0
                     THEN DictSet(h, d, Head(items).k, Head(items).v) ELSE h,
                     d, Tail(items))

\* Mutant: the base's value wins where both have the key.
_merge_top_level_base_wins(h, base, overrides) ==
    LET h1 == Alloc(h, h[base])
    IN  [h |-> setdefaults(h1, Len(h1), h1[overrides].items), id |-> Len(h1)]

\* Mutant: updates the base's own dict instead of a copy of it.
_merge_top_level_in_place(h, base, overrides) ==
    [h |-> update(h, base, h[overrides].items), id |-> base]

_merge_top_level(h, base, overrides) ==
    LET h1 == Alloc(h, h[base])
    IN  [h |-> update(h1, Len(h1), h1[overrides].items), id |-> Len(h1)]

with_overrides(cfg, overrides) ==
    LET merged == _merge_top_level(cfg.h, cfg.data, overrides)
    IN  Config(merged.h, merged.id, cfg.meta)

(***************************************************************************)
(* adapters/path_resolvers/default.py                                      *)
(*                                                                         *)
(* A file name is the sequence of its segments: its text split at every    *)
(* ".".  A directory is [config_toml, config_d, listing]: what the names   *)
(* config.toml and config.d are ("absent", "file" or "dir") and, when      *)
(* config.d is a directory, its entries [name, kind] in the order          *)
(* iterdir() yields them.  A path is [parent, name]; its text is           *)
(* parent/name.                                                            *)
(***************************************************************************)
_ALLOWED_EXTENSIONS == {".toml", ".yaml", ".yml", ".json"}

\* The file names of the model, in the order of their text (code points:
\* "." < digits < upper case < lower case).
FileNames == << <<"", "json">>, <<"10-a", "TOML">>, <<"20-b", "yaml">>, <<"30-c", "txt">>,
                <<"40-d">>, <<"50-e", "Yml">>, <<"60-f", "json">> >>

\* Path.__lt__ on entries of one directory: the order of the names' text.
NameIndex(name) == CHOOSE i \in 1..Len(FileNames) : FileNames[i] = name
NameLess(x, y) == NameIndex(x) < NameIndex(y)

RECURSIVE NameText(_)
NameText(name) ==
    IF Len(name) = 1 THEN name[1]
    ELSE name[1] \o "." \o NameText(Tail(name))

\* PurePath.suffix: the text from the last "." on, unless that dot is the
\* first or the last character of the name.
suffix(name) ==
    IF Len(name) >= 2 /\ name[Len(name)] # "" /\ ~(Len(name) = 2 /\ name[1] = "")
    THEN "." \o name[Len(name)]
    ELSE ""

\* str.lower() on the suffixes of FileNames.
lower(text) ==
    CASE text = ".TOML" -> ".toml"
      [] text = ".Yml" -> ".yml"
      [] OTHER -> text

Path(parent, name) == [parent |-> parent, name |-> name]

\* str(path)
PathText(path) == path.parent \o "/" \o NameText(path.name)

RECURSIVE insort(_, _)
insort(entry, ordered) ==
    IF ordered = <<>> THEN <<entry>>
    ELSE IF NameLess(entry.name, Head(ordered).name) THEN <<entry>> \o ordered
         ELSE <<Head(ordered)>> \o insort(entry, Tail(ordered))

\* Mutant: the entries as iterdir() yields them.
sorted_as_listed(entries) == entries

RECURSIVE sorted(_)
sorted(entries) ==
    IF entries = <<>> THEN <<>> ELSE insort(Head(entries), sorted(Tail(entries)))

RECURSIVE _config_d_files(_, _)
_config_d_files(base, entries) ==
    IF entries = <<>> THEN <<>>
    ELSE (IF Head(entries).kind = "file" /\ lower(suffix(Head(entries).name)) \in _ALLOWED_EXTENSIONS
          THEN <<Path(base \o "/config.d", Head(entries).name)>>
          ELSE <<>>) \o _config_d_files(base, Tail(entries))

_collect_layer(dir, base) ==
    (IF dir.config_toml = "file" THEN <<Path(base, <<"config", "toml">>)>> ELSE <<>>)
    \o (IF dir.config_d = "dir" THEN _config_d_files(base, sorted(dir.listing)) ELSE <<>>)

(***************************************************************************)
(* Observations: the non-mapping leaves and empty mappings of a tree, each *)
(* with the path of keys that leads to it.  Two trees are equal as Python  *)
(* values exactly when their observations are equal.                       *)
(***************************************************************************)
RECURSIVE Flat(_, _, _), FlatVal(_, _, _)
FlatVal(h, v, p) ==
    IF v.t # "ref" THEN {[p |-> p, kind |-> "scalar", c |-> <<v.n>>]}
    ELSE IF h[v.n].kind = "list"
         THEN {[p |-> p, kind |-> "list",
                c |-> [i \in 1..Len(h[v.n].items) |-> h[v.n].items[i].v.n]]}
         ELSE IF h[v.n].items = <<>>
              THEN {[p |-> p, kind |-> "empty", c |-> <<>>]}
              ELSE Flat(h, v.n, p)

Flat(h, id, prefix) ==
    UNION {FlatVal(h, h[id].items[i].v, Append(prefix, h[id].items[i].k)) :
              i \in 1..Len(h[id].items)}

Tree(h, id) == Flat(h, id, <<>>)

\* What a caller sees of one value: its kind and, for a leaf, its content.
Obs(h, v) ==
    IF v.t = "scalar" THEN [kind |-> "scalar", c |-> <<v.n>>]
    ELSE IF v.t = "none" THEN [kind |-> "none", c |-> <<>>]
    ELSE IF h[v.n].kind = "list"
         THEN [kind |-> "list", c |-> [i \in 1..Len(h[v.n].items) |-> h[v.n].items[i].v.n]]
         ELSE [kind |-> "dict", c |-> <<>>]

RECURSIVE Reach(_, _)
Reach(h, id) ==
    {id} \cup UNION {Reach(h, h[id].items[i].v.n) :
                        i \in {j \in 1..Len(h[id].items) : h[id].items[j].v.t = "ref"}}

(***************************************************************************)
(* Input payloads.  A payload is written down as the sequence of its       *)
(* leaves in insertion order and built into the heap as nested dicts.      *)
(***************************************************************************)
A == <<"a">>
B == <<"b">>
C == <<"c">>
AB == <<"a", "b">>

ScalarLeaves == {[kind |-> "scalar", c |-> <<n>>] : n \in 1..MaxScalar}
EmptyLeaf == [kind |-> "empty", c |-> <<>>]
ListLeaf == [kind |-> "list", c |-> <<1>>]

IsPrefix(s, t) == Len(s) <= Len(t) /\ SubSeq(t, 1, Len(s)) = s

Compatible(d) ==
    \A i, j \in 1..Len(d) : i # j => ~IsPrefix(d[i].p, d[j].p)

PayloadsOver(paths, leaves) ==
    LET entries == {[p |-> p, kind |-> l.kind, c |-> l.c] : p \in paths, l \in leaves}
    IN  UNION {{d \in [1..k -> entries] : Compatible(d)} : k \in 0..MaxSize}

Size(d) == IF d = <<>> THEN 1 ELSE Len(d)

\* The sequences of n payloads whose sizes add up to at most `budget`.
RECURSIVE Inputs(_, _, _)
Inputs(payloads, n, budget) ==
    IF n = 0 THEN {<<>>}
    ELSE UNION {{<<d>> \o rest : rest \in Inputs(payloads, n - 1, budget - Size(d))} :
                d \in {e \in payloads : Size(e) + (n - 1) <= budget}}

RECURSIVE Insert(_, _, _, _)
Insert(h, d, path, e) ==
    IF Len(path) = 1
    THEN IF e.kind = "scalar" THEN DictSet(h, d, path[1], Scalar(e.c[1]))
         ELSE LET h1 == Alloc(h, IF e.kind = "list" THEN ListOf(e.c[1]) ELSE EmptyDict)
              IN  DictSet(h1, d, path[1], Ref(Len(h1)))
    ELSE LET child == DictGet(h, d, Head(path))
         IN  IF IsMapping(h, child) THEN Insert(h, child.n, Tail(path), e)
             ELSE LET h1 == Alloc(h, EmptyDict)
                  IN  Insert(DictSet(h1, d, Head(path), Ref(Len(h1))), Len(h1),
                             Tail(path), e)

RECURSIVE BuildFrom(_, _, _)
BuildFrom(h, d, es) ==
    IF es = <<>> THEN h ELSE BuildFrom(Insert(h, d, Head(es).p, Head(es)), d, Tail(es))

Build(h, es) ==
    LET h0 == Alloc(h, EmptyDict)
    IN  [h |-> BuildFrom(h0, Len(h0), es), id |-> Len(h0)]

LayerNames == <<"app", "host", "user", "dotenv", "env">>
LayerPaths == <<"app.toml", "host.toml", "user.toml", ".env", "None">>

RECURSIVE BuildLayers(_, _, _)
BuildLayers(h, ds, acc) ==
    IF Len(acc) = Len(ds) THEN [h |-> h, layers |-> acc]
    ELSE LET i == Len(acc) + 1
             b == Build(h, ds[i])
         IN  BuildLayers(b.h, ds,
                         Append(acc, [name |-> LayerNames[i], data |-> b.id,
                                      path |-> LayerPaths[i]]))

\* A run that reads no file and no environment.
NoWorld == <<>>

InitWith(inputs) ==
    /\ desc \in inputs
    /\ LET b == BuildLayers(<<>>, desc, <<>>)
       IN  heap = b.h /\ layers = b.layers
    /\ pc = "start"
    /\ ret = <<>>
    /\ world = NoWorld

\* The caller invokes merge_layers on `ls` and keeps what it returns.
Call(ls) ==
    LET r == merge_layers(heap, ls)
    IN  /\ heap' = r.h
        /\ ret' = Append(ret, [id |-> r.merged, meta |-> r.meta,
                               tree |-> Tree(r.h, r.merged)])

(***************************************************************************)
(* core.py: read_config over a world of sources.                           *)
(*                                                                         *)
(* A world is [src, prefer].  src gives for each source (the config.toml   *)
(* and one config.d file of the app layer, the host file, the config.toml  *)
(* of the user layer, the .env file, the environment) its content: absent, *)
(* malformed, or ok with the payload a loader parses from it.  An error    *)
(* is [type, message], the message being the sequence of its parts.        *)
(***************************************************************************)
Sources == <<"app/config.toml", "app/config.d", "host", "user/config.toml", "dotenv", "env">>

AppBase == "/etc/app"
UserBase == "/home/user/.config/app"
ConfigToml == <<"config", "toml">>
SourcePaths == <<Path(AppBase, ConfigToml),
                 Path(AppBase \o "/config.d", <<"60-f", "json">>),
                 Path(AppBase \o "/hosts", <<"myhost", "toml">>),
                 Path(UserBase, ConfigToml),
                 Path("/work", <<"", "env">>)>>

Absent == [kind |-> "absent", d |-> <<>>]
Malformed == [kind |-> "malformed", d |-> <<>>]
Ok(d) == [kind |-> "ok", d |-> d]

Present(w, i) == w.src[i].kind # "absent"

\* The directory the resolver sees for a layer whose config.toml is source
\* i and whose config.d file, if it has one, is source j (0: none).
DirOf(w, i, j) ==
    [config_toml |-> IF Present(w, i) THEN "file" ELSE "absent",
     config_d |-> IF j # 0 /\ Present(w, j) THEN "dir" ELSE "absent",
     listing |-> IF j # 0 /\ Present(w, j)
                 THEN <<[name |-> SourcePaths[j].name, kind |-> "file"]>> ELSE <<>>]

\* resolver.app(), resolver.host(), resolver.user()
app(w) == _collect_layer(DirOf(w, 1, 2), AppBase)
host(w) == IF Present(w, 3) THEN <<SourcePaths[3]>> ELSE <<>>
user(w) == _collect_layer(DirOf(w, 4, 0), UserBase)

NoError == [type |-> "None", message |-> <<>>]
InvalidFormat(message) == [type |-> "InvalidFormat", message |-> message]
NotFound(message) == [type |-> "NotFound", message |-> message]
LayerLoadError(message) == [type |-> "LayerLoadError", message |-> message]

\* What a step of the read hands on: the heap, the layer entries it
\* produced, and the error it raised, if any.
Step(h, entries, error) == [h |-> h, entries |-> entries, error |-> error]

\* The format a loader names in its messages.
Format(path) ==
    CASE lower(suffix(path.name)) = ".toml" -> "TOML"
      [] lower(suffix(path.name)) = ".json" -> "JSON"
      [] OTHER -> "YAML"

\* loader.load(path) of a structured file loader: the parsed mapping.
load(h, w, path) ==
    LET content == w.src[CHOOSE i \in 1..Len(SourcePaths) : SourcePaths[i] = path]
    IN  CASE content.kind = "absent" ->
                [h |-> h, data |-> 0, error |-> NotFound(<<"File not found: ", PathText(path)>>)]
          [] content.kind = "malformed" ->
                [h |-> h, data |-> 0,
                 error |-> InvalidFormat(<<"Invalid ", Format(path), " in ",
                                           PathText(path), ": ", "decode error">>)]
          [] OTHER ->
                The({[h |-> b.h, data |-> b.id, error |-> NoError] : b \in {Build(h, content.d)}})

_FILE_LOADERS == {".toml", ".json", ".yaml", ".yml"}

\* Mutant: a file that does not parse is skipped.
_load_entry_skips_malformed(h, w, layer, path) ==
    IF lower(suffix(path.name)) \notin _FILE_LOADERS THEN Step(h, <<>>, NoError)
    ELSE The({IF r.error # NoError THEN Step(h, <<>>, NoError)
              ELSE IF r.h[r.data].items = <<>> THEN Step(r.h, <<>>, NoError)
                   ELSE Step(r.h, <<[name |-> layer, data |-> r.data,
                                     path |-> PathText(path)]>>, NoError) :
              r \in {load(h, w, path)}})

_load_entry(h, w, layer, path) ==
    IF lower(suffix(path.name)) \notin _FILE_LOADERS THEN Step(h, <<>>, NoError)
    ELSE The({CASE r.error.type = "NotFound" -> Step(h, <<>>, NoError)
                [] r.error.type = "InvalidFormat" ->
                      Step(h, <<>>,
                           LayerLoadError(<<"Failed to load ", layer, " layer file ",
                                            PathText(path), ": ">> \o r.error.message))
                [] OTHER ->
                      IF r.h[r.data].items = <<>> THEN Step(r.h, <<>>, NoError)
                      ELSE Step(r.h, <<[name |-> layer, data |-> r.data,
                                        path |-> PathText(path)]>>, NoError) :
              r \in {load(h, w, path)}})

\* ranking.get(suffix.lower().lstrip("."), len(ranking))
Rank(path, prefer) ==
    LET hits == {i \in 1..Len(prefer) : "." \o prefer[i] = lower(suffix(path.name))}
    IN  IF hits = {} THEN Len(prefer) ELSE Max(hits) - 1

\* Insertion behind every element of rank at most its own: a stable sort.
RECURSIVE insort_by_rank(_, _, _)
insort_by_rank(path, ordered, prefer) ==
    IF ordered = <<>> THEN <<path>>
    ELSE IF Rank(path, prefer) < Rank(Head(ordered), prefer) THEN <<path>> \o ordered
         ELSE <<Head(ordered)>> \o insort_by_rank(path, Tail(ordered), prefer)

RECURSIVE sorted_by_rank(_, _)
sorted_by_rank(paths, prefer) ==
    IF paths = <<>> THEN <<>>
    ELSE insort_by_rank(paths[Len(paths)], sorted_by_rank(SubSeq(paths, 1, Len(paths) - 1), prefer),
                        prefer)

_order_paths(paths, prefer) ==
    IF prefer = <<>> THEN paths ELSE sorted_by_rank(paths, prefer)

\* The loop of _load_files; an exception ends it.
RECURSIVE _load_each(_, _, _, _, _)
_load_each(h, w, layer, paths, entries) ==
    IF paths = <<>> THEN Step(h, entries, NoError)
    ELSE The({IF r.error # NoError THEN r
              ELSE _load_each(r.h, w, layer, Tail(paths), entries \o r.entries) :
              r \in {_load_entry(h, w, layer, Head(paths))}})

_load_files(h, w, layer, paths, prefer) ==
    _load_each(h, w, layer, _order_paths(paths, prefer), <<>>)

\* One step after another; the first exception is the outcome.
Then(first, second) ==
    IF first.error # NoError THEN first
    ELSE IF second.error # NoError THEN second
         ELSE Step(second.h, first.entries \o second.entries, NoError)

_collect_path_layers(h, w) ==
    The({The({The({Then(Then(fromApp, fromHost), fromUser) :
                   fromUser \in {_load_files(fromHost.h, w, "user", user(w), w.prefer)}}) :
              fromHost \in {_load_files(fromApp.h, w, "host", host(w), w.prefer)}}) :
         fromApp \in {_load_files(h, w, "app", app(w), w.prefer)}})

\* DefaultDotEnvLoader.load and the entry made of it.
_dotenv_layer(h, w) ==
    CASE w.src[5].kind = "absent" -> Step(h, <<>>, NoError)
      [] w.src[5].kind = "malformed" ->
            Step(h, <<>>, InvalidFormat(<<"Malformed line ", "1", " in ",
                                          PathText(SourcePaths[5])>>))
      [] OTHER ->
            The({IF b.h[b.id].items = <<>> THEN Step(b.h, <<>>, NoError)
                 ELSE Step(b.h, <<[name |-> "dotenv", data |-> b.id,
                                   path |-> PathText(SourcePaths[5])]>>, NoError) :
                 b \in {Build(h, w.src[5].d)}})

\* DefaultEnvLoader.load and the entry made of it.
_env_layer(h, w) ==
    The({IF b.h[b.id].items = <<>> THEN Step(b.h, <<>>, NoError)
         ELSE Step(b.h, <<[name |-> "env", data |-> b.id, path |-> "None"]>>, NoError) :
         b \in {Build(h, w.src[6].d)}})

\* Mutant: the environment is merged before the .env file.
_gather_layers_env_first(h, w) ==
    The({The({The({Then(Then(files, env), dotenv) :
                   dotenv \in {_dotenv_layer(env.h, w)}}) :
              env \in {_env_layer(files.h, w)}}) :
         files \in {_collect_path_layers(h, w)}})

_gather_layers(h, w) ==
    The({The({The({Then(Then(files, dotenv), env) :
                   env \in {_env_layer(dotenv.h, w)}}) :
              dotenv \in {_dotenv_layer(files.h, w)}}) :
         files \in {_collect_path_layers(h, w)}})

_merge_or_empty(h, ls) ==
    IF ls = <<>> THEN [h |-> Alloc(h, EmptyDict), merged |-> Len(h) + 1, meta |-> EmptyMeta]
    ELSE merge_layers(h, ls)

\* The module-level EMPTY_CONFIG, built when config.py is imported.
EmptyConfigHeap == Config(<<EmptyDict>>, 1, EmptyMeta).h
EMPTY_CONFIG == [data |-> Len(EmptyConfigHeap), meta |-> EmptyMeta]

\* What read_config gives its caller: a Config or an exception.
Returns(h, ls, cfg) ==
    [h |-> h, layers |-> ls,
     result |-> [kind |-> "config", id |-> cfg.data, meta |-> cfg.meta,
                 tree |-> Tree(h, cfg.data), error |-> NoError]]
Raises(h, error) ==
    [h |-> h, layers |-> <<>>,
     result |-> [kind |-> "raised", id |-> 0, meta |-> EmptyMeta, tree |-> {},
                 error |-> error]]

\* read_config_raw: the merged mapping and provenance, or the exception.
read_config_raw(h, w) ==
    The({IF gathered.error # NoError
         THEN [h |-> gathered.h, layers |-> <<>>, merged |-> 0, meta |-> EmptyMeta,
               error |-> gathered.error]
         ELSE The({[h |-> raw.h, layers |-> gathered.entries, merged |-> raw.merged,
                    meta |-> raw.meta, error |-> NoError] :
                   raw \in {_merge_or_empty(gathered.h, gathered.entries)}}) :
         gathered \in {_gather_layers(h, w)}})

\* Mutant: a Config is built even when nothing was merged.
read_config_always_fresh(h, w) ==
    The({IF raw.error # NoError THEN Raises(raw.h, raw.error)
         ELSE The({Returns(cfg.h, raw.layers, cfg) :
                   cfg \in {Config(raw.h, raw.merged, raw.meta)}}) :
         raw \in {read_config_raw(h, w)}})

read_config(h, w) ==
    The({IF raw.error # NoError THEN Raises(raw.h, raw.error)
         ELSE IF raw.h[raw.merged].items = <<>>
              THEN Returns(raw.h, raw.layers, EMPTY_CONFIG)
              ELSE The({Returns(cfg.h, raw.layers, cfg) :
                        cfg \in {Config(raw.h, raw.merged, raw.meta)}}) :
         raw \in {read_config_raw(h, w)}})

(***************************************************************************)
(* Spec: merge_layers([A, B]) for every pair of payloads.                  *)
(***************************************************************************)
PairPaths == {<<A>>, <<AB>>, <<A, B>>, <<A, C>>}
PairPayloads == PayloadsOver(PairPaths, ScalarLeaves \cup {EmptyLeaf})

Init == InitWith(Inputs(PairPayloads, 2, MaxSize))

MergeLayers ==
    /\ pc = "start"
    /\ Call(layers)
    /\ pc' = "merged"
    /\ UNCHANGED <<layers, desc, world>>

Next == MergeLayers

Spec == Init /\ [][Next]_vars

(***************************************************************************)
(* SpecFold: merge_layers over every sequence of up to MaxLayers payloads. *)
(***************************************************************************)
FoldPaths == {<<A>>, <<AB>>, <<A, B>>}
FoldPayloads == PayloadsOver(FoldPaths, {[kind |-> "scalar", c |-> <<1>>], EmptyLeaf, ListLeaf})

InitFold == InitWith(UNION {Inputs(FoldPayloads, n, MaxSize) : n \in 1..MaxLayers})

SpecFold == InitFold /\ [][Next]_vars

(***************************************************************************)
(* SpecAssoc: the calls of test_merge_associative on payloads lhs, mid,    *)
(* rhs, followed by the re-flattening merge([merge([lhs, mid]), rhs]).     *)
(* ret[n] is what the n-th call returned.                                  *)
(***************************************************************************)
AssocPaths == {<<A>>, <<A, B>>, <<A, C>>}
AssocPayloads == PayloadsOver(AssocPaths, {[kind |-> "scalar", c |-> <<1>>], EmptyLeaf, ListLeaf})

InitAssoc == InitWith(Inputs(AssocPayloads, 3, MaxSize))

Layer(name, data) == [name |-> name, data |-> data, path |-> "None"]
lhs == Layer("lhs", layers[1].data)
mid == Layer("mid", layers[2].data)
rhs == Layer("rhs", layers[3].data)

\* What the n-th call is given, and where the test stands after it.
Arguments(n) ==
    CASE n = 1 -> <<lhs, mid, rhs>>
      [] n = 2 -> <<Layer("lhs-mid", ret[1].id), rhs>>
      [] n = 3 -> <<mid, rhs>>
      [] n = 4 -> <<lhs, Layer("mid-rhs", ret[3].id)>>
      [] n = 5 -> <<lhs, mid>>
      [] n = 6 -> <<Layer("lhs-mid", ret[5].id), rhs>>

Position == <<"left", "left_then_right", "mid_rhs", "right_then_left", "lhs_mid", "done">>

NextCall ==
    /\ pc # "done"
    /\ Call(Arguments(Len(ret) + 1))
    /\ pc' = Position[Len(ret) + 1]
    /\ UNCHANGED <<layers, desc, world>>

NextAssoc == NextCall

SpecAssoc == InitAssoc /\ [][NextAssoc]_vars

(***************************************************************************)
(* SpecAlias: merge_layers, after which the caller mutates one object of   *)
(* the returned tree or one object of an input payload.                    *)
(***************************************************************************)
AliasPaths == {<<A>>, <<A, B>>}
AliasPayloads == PayloadsOver(AliasPaths, {[kind |-> "scalar", c |-> <<1>>], EmptyLeaf, ListLeaf})

InitAlias == InitWith(UNION {Inputs(AliasPayloads, n, MaxSize) : n \in 1..MaxLayers})

Z == <<"z">>

\* obj.append(0) on a list, obj["z"] = 0 on a dict.
Mutate(h, o) ==
    IF h[o].kind = "list"
    THEN [h EXCEPT ![o].items = Append(@, [k |-> <<>>, v |-> Scalar(0)])]
    ELSE DictSet(h, o, Z, Scalar(0))

InputObjects == UNION {Reach(heap, layers[i].data) : i \in 1..Len(layers)}

MutateMerged ==
    /\ pc = "merged"
    /\ \E o \in Reach(heap, ret[1].id) : heap' = Mutate(heap, o)
    /\ pc' = "mutated_merged"
    /\ UNCHANGED <<layers, desc, ret, world>>

MutateInput ==
    /\ pc = "merged"
    /\ \E o \in InputObjects : heap' = Mutate(heap, o)
    /\ pc' = "mutated_input"
    /\ UNCHANGED <<layers, desc, ret, world>>

NextAlias ==
    \/ MergeLayers
    \/ MutateMerged
    \/ MutateInput

SpecAlias == InitAlias /\ [][NextAlias]_vars

(***************************************************************************)
(* SpecEmpty: merge_layers of an accumulated payload and a later payload   *)
(* whose only leaf is an empty mapping, at a key path of any depth.        *)
(***************************************************************************)
EmptyPaths == {<<A>>, <<AB>>, <<A, B>>, <<A, B, C>>}
EmptyPayloads == PayloadsOver(EmptyPaths, {[kind |-> "scalar", c |-> <<1>>], EmptyLeaf})

InitEmpty ==
    InitWith({i \in Inputs(EmptyPayloads, 2, MaxSize + 1) :
                 Len(i[2]) = 1 /\ i[2][1].kind = "empty"})

SpecEmpty == InitEmpty /\ [][Next]_vars

(***************************************************************************)
(* SpecConfig: a caller builds Config(data, meta) from its own mapping     *)
(* (tests/unit/test_config.py, make_config), then uses the public          *)
(* interface: as_dict, with_overrides, and the values the accessors hand   *)
(* out.  ret[1] is the Config, ret[2] what as_dict or with_overrides       *)
(* returned.  A Config is identified by its frozen _data object.           *)
(***************************************************************************)
ConfigPaths == {<<A>>, <<AB>>, <<A, B>>, <<A, C>>}
ConfigPayloads == PayloadsOver(ConfigPaths, {[kind |-> "scalar", c |-> <<1>>], EmptyLeaf, ListLeaf})

InitConfig == InitWith(Inputs(ConfigPayloads, 2, MaxSize))

Returned(cfg) == [id |-> cfg.data, meta |-> cfg.meta, tree |-> Tree(cfg.h, cfg.data)]

\* The Config of ret[n] in the current heap.
Cfg(n) == [h |-> heap, data |-> ret[n].id, meta |-> ret[n].meta]

\* config = Config(data, meta), meta naming the layer of every leaf.
Construct ==
    /\ pc = "start"
    /\ LET cfg == Config(heap, layers[1].data, merge_layers(heap, <<layers[1]>>).meta)
       IN  heap' = cfg.h /\ ret' = <<Returned(cfg)>>
    /\ pc' = "built"
    /\ UNCHANGED <<layers, desc, world>>

\* exported = config.as_dict()
AsDict ==
    /\ pc = "built"
    /\ LET r == as_dict(Cfg(1))
       IN  /\ heap' = r.h
           /\ ret' = Append(ret, [id |-> r.id, meta |-> EmptyMeta, tree |-> Tree(r.h, r.id)])
    /\ pc' = "exported"
    /\ UNCHANGED <<layers, desc, world>>

\* The caller mutates the exported dict or an object inside it.
MutateExported ==
    /\ pc = "exported"
    /\ \E o \in Reach(heap, ret[2].id) : heap' = Mutate(heap, o)
    /\ pc' = "exported_mutated"
    /\ UNCHANGED <<layers, desc, ret, world>>

\* replaced = config.with_overrides(overrides)
WithOverrides ==
    /\ pc = "built"
    /\ LET cfg == with_overrides(Cfg(1), layers[2].data)
       IN  heap' = cfg.h /\ ret' = Append(ret, Returned(cfg))
    /\ pc' = "derived"
    /\ UNCHANGED <<layers, desc, world>>

\* The objects config[key], get() and iteration hand out: everything below
\* the mappingproxy, which itself rejects item assignment.
Accessible(n) == Reach(heap, ret[n].id) \ {ret[n].id}

\* The caller mutates a value it obtained from an accessor of the Config.
MutateAccessed ==
    /\ pc = "built"
    /\ \E o \in Accessible(1) : heap' = Mutate(heap, o)
    /\ pc' = "accessed_mutated"
    /\ UNCHANGED <<layers, desc, ret, world>>

\* The caller mutates the mapping it passed to the constructor.
MutateSource ==
    /\ pc = "built"
    /\ \E o \in Reach(heap, layers[1].data) : heap' = Mutate(heap, o)
    /\ pc' = "source_mutated"
    /\ UNCHANGED <<layers, desc, ret, world>>

\* The caller mutates a value obtained from the derived Config, or the
\* overrides mapping it passed to with_overrides.
MutateDerived ==
    /\ pc = "derived"
    /\ \E o \in Accessible(2) \cup Reach(heap, layers[2].data) : heap' = Mutate(heap, o)
    /\ pc' = "derived_mutated"
    /\ UNCHANGED <<layers, desc, ret, world>>

NextConfig ==
    \/ Construct
    \/ AsDict
    \/ MutateExported
    \/ WithOverrides
    \/ MutateAccessed
    \/ MutateSource
    \/ MutateDerived

SpecConfig == InitConfig /\ [][NextConfig]_vars

(***************************************************************************)
(* SpecResolve: _collect_layer(base) on every state of a base directory.   *)
(* A missing base directory is the state in which both names are absent.   *)
(***************************************************************************)
EntryKinds == {"file", "dir"}
NameKinds == {"absent"} \cup EntryKinds

\* The listings of config.d: up to MaxEntries distinct names, in any order.
Listings ==
    UNION {{l \in [1..k -> [name : {FileNames[i] : i \in 1..Len(FileNames)}, kind : EntryKinds]] :
               \A i, j \in 1..k : i # j => l[i].name # l[j].name} : k \in 0..MaxEntries}

Directories ==
    {d \in [config_toml : NameKinds, config_d : NameKinds, listing : Listings] :
        d.config_d # "dir" => d.listing = <<>>}

InitResolve ==
    /\ world \in Directories
    /\ heap = <<>> /\ layers = <<>> /\ desc = <<>>
    /\ pc = "start"
    /\ ret = <<>>

Resolve ==
    /\ pc = "start"
    /\ ret' = <<_collect_layer(world, AppBase)>>
    /\ pc' = "resolved"
    /\ UNCHANGED <<heap, layers, desc, world>>

NextResolve == Resolve

SpecResolve == InitResolve /\ [][NextResolve]_vars

(***************************************************************************)
(* SpecRead: read_config in every world of at most MaxLayers sources.      *)
(* A scalar a source sets is the source's number, so that the winner of a  *)
(* path shows in its value.                                                *)
(***************************************************************************)
Entry(p, kind, c) == [p |-> p, kind |-> kind, c |-> c]

\* What a TOML or JSON file can hold.
FilePayloads(v) ==
    {<<>>,
     <<Entry(<<A>>, "scalar", <<v>>)>>,
     <<Entry(<<A>>, "empty", <<>>)>>,
     <<Entry(<<A, B>>, "scalar", <<v>>)>>,
     <<Entry(<<A, B>>, "scalar", <<v>>), Entry(<<AB>>, "empty", <<>>)>>}

\* What the lines of a .env file give: nested keys, scalar values.
DotenvPayloads(v) ==
    {<<>>, <<Entry(<<A>>, "scalar", <<v>>)>>, <<Entry(<<A, B>>, "scalar", <<v>>)>>}

\* What the prefixed variables give: APP_A, APP_A__B, APP_A.B.
EnvPayloads(v) ==
    {<<Entry(<<A>>, "scalar", <<v>>)>>, <<Entry(<<A, B>>, "scalar", <<v>>)>>,
     <<Entry(<<AB>>, "scalar", <<v>>)>>}

Contents(i) ==
    {Absent} \cup
    CASE i \in 1..4 -> {Malformed} \cup {Ok(d) : d \in FilePayloads(i)}
      [] i = 5 -> {Malformed} \cup {Ok(d) : d \in DotenvPayloads(i)}
      [] OTHER -> {Ok(d) : d \in EnvPayloads(i)}

Prefers == {<<>>, <<"json">>}

\* An absent environment is one without a prefixed variable.
Assignments ==
    {<<c1, c2, c3, c4, c5, c6>> : c1 \in Contents(1), c2 \in Contents(2), c3 \in Contents(3),
                                  c4 \in Contents(4), c5 \in Contents(5), c6 \in Contents(6)}

Worlds ==
    [src : {f \in Assignments : Cardinality({i \in 1..Len(Sources) : f[i] # Absent}) <= MaxLayers},
     prefer : Prefers]

InitRead ==
    /\ world \in Worlds
    /\ heap = EmptyConfigHeap
    /\ layers = <<>> /\ desc = <<>>
    /\ pc = "start"
    /\ ret = <<>>

\* config = read_config(vendor, app, slug, prefer)
ReadConfig ==
    /\ pc = "start"
    /\ \E r \in {read_config(heap, world)} :
           heap' = r.h /\ layers' = r.layers /\ ret' = <<r.result>>
    /\ pc' = "done"
    /\ UNCHANGED <<desc, world>>

NextRead == ReadConfig

SpecRead == InitRead /\ [][NextRead]_vars

(***************************************************************************)
(* adapters/env/default.py and adapters/dotenv/default.py: nested          *)
(* assignment of "__"-delimited names.  Names and values are strings; the  *)
(* mapping under construction lives on the heap, its keys are strings.     *)
(***************************************************************************)
ValueError(message) == [type |-> "ValueError", message |-> message]

\* str.lower() of one character of the alphabet the names are written in.
LowerChar(c) ==
    CASE c = "A" -> "a"
      [] c = "B" -> "b"
      [] c = "P" -> "p"
      [] c = "X" -> "x"
      [] c = "Y" -> "y"
      [] OTHER -> c

\* str.lower()
RECURSIVE lowered(_)
lowered(text) ==
    IF text = "" THEN ""
    ELSE LowerChar(SubSeq(text, 1, 1)) \o lowered(SubSeq(text, 2, Len(text)))

\* str.startswith
startswith(text, prefix) ==
    Len(prefix) <= Len(text) /\ SubSeq(text, 1, Len(prefix)) = prefix

\* str.endswith
endswith(text, ending) ==
    Len(ending) <= Len(text)
        /\ SubSeq(text, Len(text) - Len(ending) + 1, Len(text)) = ending

\* key.split("__"): cut at each "__" found scanning from the left.
RECURSIVE split(_)
split(key) ==
    LET cuts == {i \in 1..Len(key) - 1 : SubSeq(key, i, i + 1) = "__"}
    IN  IF cuts = {} THEN <<key>>
        ELSE LET i == CHOOSE c \in cuts : \A d \in cuts : c <= d
             IN  <<SubSeq(key, 1, i - 1)>> \o split(SubSeq(key, i + 2, Len(key)))

\* The first existing key equal to `key` without regard to case, else the
\* lower-case key.
_resolve_key(h, mapping, key) ==
    LET items == h[mapping].items
        hits == {i \in 1..Len(items) : lowered(items[i].k) = lowered(key)}
    IN  IF hits = {} THEN lowered(key)
        ELSE items[CHOOSE i \in hits : \A j \in hits : i <= j].k

\* Mutant: a scalar in the way is replaced by a new mapping.
_ensure_child_mapping_replaces(h, mapping, key, error_cls) ==
    LET resolved == _resolve_key(h, mapping, key)
        child == DictGet(h, mapping, resolved)
    IN  IF IsMapping(h, child)
        THEN [h |-> h, child |-> child.n, error |-> NoError]
        ELSE LET h1 == Alloc(h, EmptyDict)
             IN  [h |-> DictSet(h1, mapping, resolved, Ref(Len(h1))),
                  child |-> Len(h1), error |-> NoError]

\* Yields the heap, the child mapping and the error raised, if any.
_ensure_child_mapping(h, mapping, key, error_cls) ==
    LET resolved == _resolve_key(h, mapping, key)
        h1 == IF IndexOf(h[mapping].items, resolved) = 0
              THEN LET h0 == Alloc(h, EmptyDict)
                   IN  DictSet(h0, mapping, resolved, Ref(Len(h0)))
              ELSE h
        child == DictGet(h1, mapping, resolved)
    IN  IF ~IsMapping(h1, child)
        THEN [h |-> h1, child |-> 0,
              error |-> IF error_cls = "ValueError"
                        THEN ValueError(<<"Cannot override scalar with mapping for key ", key>>)
                        ELSE InvalidFormat(<<"Cannot overwrite scalar with mapping for key ", key>>)]
        ELSE [h |-> h1, child |-> child.n, error |-> NoError]

\* The loop over parts[:-1] and the final assignment, from `cursor` on.
RECURSIVE _assign_parts(_, _, _, _, _)
_assign_parts(h, cursor, parts, value, error_cls) ==
    IF Len(parts) = 1
    THEN [h |-> DictSet(h, cursor, _resolve_key(h, cursor, parts[1]), value),
          error |-> NoError]
    ELSE LET step == _ensure_child_mapping(h, cursor, Head(parts), error_cls)
         IN  IF step.error # NoError THEN [h |-> step.h, error |-> step.error]
             ELSE _assign_parts(step.h, step.child, Tail(parts), value, error_cls)

\* env.assign_nested (error_cls ValueError) and dotenv._assign_nested
\* (error_cls InvalidFormat).
assign_nested(h, target, key, value, error_cls) ==
    _assign_parts(h, target, split(key), value, error_cls)

_normalize_prefix(prefix) ==
    IF prefix # "" /\ ~endswith(prefix, "_") THEN prefix \o "_" ELSE prefix

\* The (stripped_key, value) pairs of the entries that match the prefix.
RECURSIVE _iter_namespace_entries(_, _)
_iter_namespace_entries(items, prefix) ==
    IF items = <<>> THEN <<>>
    ELSE LET key == Head(items).k
             stripped == IF prefix # "" THEN SubSeq(key, Len(prefix) + 1, Len(key)) ELSE key
         IN  (IF (prefix # "" /\ ~startswith(key, prefix)) \/ stripped = ""
              THEN <<>>
              ELSE <<[k |-> stripped, v |-> Head(items).v]>>)
             \o _iter_namespace_entries(Tail(items), prefix)

\* _coerce on the values of the environments below: digits become integers.
_coerce(value) ==
    CASE value = "1" -> Scalar(1)
      [] value = "2" -> Scalar(2)

RECURSIVE _assign_each(_, _, _)
_assign_each(h, collected, entries) ==
    IF entries = <<>> THEN [h |-> h, error |-> NoError]
    ELSE LET r == assign_nested(h, collected, Head(entries).k, _coerce(Head(entries).v),
                                "ValueError")
         IN  IF r.error # NoError THEN r
             ELSE _assign_each(r.h, collected, Tail(entries))

\* DefaultEnvLoader(environ=environ).load(prefix) for a non-empty environ
\* (an empty one makes the loader read os.environ instead).
env_load(h, environ, prefix) ==
    LET h0 == Alloc(h, EmptyDict)
        r == _assign_each(h0, Len(h0),
                          _iter_namespace_entries(environ, _normalize_prefix(prefix)))
    IN  [h |-> r.h, collected |-> Len(h0), error |-> r.error]

\* The mapping as the caller sees it: its items in order, nested mappings
\* expanded.
RECURSIVE Snapshot(_, _)
Snapshot(h, v) ==
    IF IsMapping(h, v)
    THEN [t |-> "dict", n |-> 0,
          items |-> [i \in 1..Len(h[v.n].items) |->
                        [k |-> h[v.n].items[i].k, v |-> Snapshot(h, h[v.n].items[i].v)]]]
    ELSE [t |-> v.t, n |-> v.n, items |-> <<>>]

\* The snapshot without the order of the items: what dict.__eq__ compares.
RECURSIVE Unordered(_)
Unordered(s) ==
    [t |-> s.t, n |-> s.n,
     items |-> {[k |-> s.items[i].k, v |-> Unordered(s.items[i].v)] : i \in DOMAIN s.items}]

(***************************************************************************)
(* SpecEnv: DefaultEnvLoader(environ=...).load(prefix) on every ordered    *)
(* environment of at most MaxEnv variables.                                *)
(***************************************************************************)
MaxEnv == 3

EnvNames == {"X_A", "X_a", "x_A", "X_A__B", "X_B", "Y_A", "X_", "XA"}
EnvValues == {"1", "2"}
EnvPrefixes == {"X", "X_"}

Environments ==
    UNION {{e \in [1..n -> [k : EnvNames, v : EnvValues]] :
               \A i, j \in 1..n : i # j => e[i].k # e[j].k} : n \in 1..MaxEnv}

InitEnv ==
    /\ world \in [environ : Environments, prefix : EnvPrefixes]
    /\ heap = <<>>
    /\ layers = <<>>
    /\ desc = <<>>
    /\ pc = "start"
    /\ ret = <<>>

Outcome(r) ==
    [error |-> r.error,
     mapping |-> IF r.error = NoError THEN Snapshot(r.h, Ref(r.collected))
                 ELSE Snapshot(r.h, None)]

Load ==
    /\ pc = "start"
    /\ \E r \in {env_load(heap, world.environ, world.prefix)} :
          /\ heap' = r.h
          /\ ret' = <<Outcome(r)>>
    /\ pc' = "done"
    /\ UNCHANGED <<layers, desc, world>>

NextEnv == Load

SpecEnv == InitEnv /\ [][NextEnv]_vars

(***************************************************************************)
(* SpecAssign: one call of assign_nested (env) or _assign_nested (dotenv)  *)
(* on a mapping the caller built.                                          *)
(***************************************************************************)
Literal(t, n, items) == [t |-> t, n |-> n, items |-> items]

\* The values a key of the caller's mapping can hold.
AssignLeaves ==
    {Literal("scalar", 1, <<>>), Literal("dict", 0, <<>>)}
        \cup {Literal("dict", 0, <<[k |-> k, v |-> l]>>) :
                 k \in {"b", "B"},
                 l \in {Literal("scalar", 1, <<>>), Literal("dict", 0, <<>>)}}

AssignTargets ==
    {Literal("dict", 0, its) :
        its \in UNION {{e \in [1..n -> [k : {"A", "a"}, v : AssignLeaves]] :
                           \A i, j \in 1..n : i # j => e[i].k # e[j].k} : n \in 0..2}}

AssignKeys == {"A", "a", "A__B", "a__b", "A__B__A", "B__A", "B__A__B"}

\* Builds the literal on the heap; yields the heap and the value.
RECURSIVE BuildLiteral(_, _), BuildItems(_, _, _)
BuildItems(h, d, items) ==
    IF items = <<>> THEN h
    ELSE LET b == BuildLiteral(h, Head(items).v)
         IN  BuildItems(DictSet(b.h, d, Head(items).k, b.v), d, Tail(items))

BuildLiteral(h, lit) ==
    IF lit.t = "dict"
    THEN LET h0 == Alloc(h, EmptyDict)
         IN  [h |-> BuildItems(h0, Len(h0), lit.items), v |-> Ref(Len(h0))]
    ELSE [h |-> h, v |-> Scalar(lit.n)]

InitAssign ==
    /\ world \in [target : AssignTargets, key : AssignKeys,
                  error_cls : {"ValueError", "InvalidFormat"}]
    /\ heap = BuildLiteral(<<>>, world.target).h
    /\ layers = <<>>
    /\ desc = <<>>
    /\ pc = "start"
    /\ ret = <<>>

\* The caller's mapping is the first object of the heap.
AssignNested ==
    /\ pc = "start"
    /\ \E r \in {assign_nested(heap, 1, world.key, Scalar(2), world.error_cls)} :
          /\ heap' = r.h
          /\ ret' = <<[error |-> r.error, target |-> Snapshot(r.h, Ref(1))]>>
    /\ pc' = "done"
    /\ UNCHANGED <<layers, desc, world>>

NextAssign == AssignNested

SpecAssign == InitAssign /\ [][NextAssign]_vars

(***************************************************************************)
(* path_resolvers/default.py, dotenv() and adapters/dotenv/default.py,     *)
(* DefaultDotEnvLoader.  A path is the sequence of its segments below the  *)
(* root; a filesystem gives the body of each `.env` that is a regular      *)
(* file and marks those that are directories.                              *)
(***************************************************************************)
\* Path(text) for an absolute POSIX path.
RECURSIVE PosixPath(_)
PosixPath(text) ==
    LET cuts == {i \in 1..Len(text) : SubSeq(text, i, i) = "/"}
    IN  IF text = "" THEN <<>>
        ELSE IF cuts = {} THEN <<text>>
        ELSE LET i == CHOOSE c \in cuts : \A d \in cuts : c <= d
             IN  (IF i = 1 THEN <<>> ELSE <<SubSeq(text, 1, i - 1)>>)
                 \o PosixPath(SubSeq(text, i + 1, Len(text)))

\* str(path)
RECURSIVE PathStr(_)
PathStr(p) ==
    IF p = <<>> THEN "/"
    ELSE IF Len(p) = 1 THEN "/" \o p[1]
    ELSE PathStr(SubSeq(p, 1, Len(p) - 1)) \o "/" \o p[Len(p)]

\* [directory, *directory.parents]
RECURSIVE WithParents(_)
WithParents(directory) ==
    IF directory = <<>> THEN <<directory>>
    ELSE <<directory>> \o WithParents(SubSeq(directory, 1, Len(directory) - 1))

is_file(fs, p) == p \in DOMAIN fs /\ fs[p].kind = "file"

vendor == "v"
application == "a"
slug == "app"

\* The environment of the resolver.
XDG_CONFIG_HOME == "/home/cfg"
LIB_LAYERED_CONFIG_MAC_HOME_ROOT == "/home"
LIB_LAYERED_CONFIG_APPDATA == "/home"

NoPath == <<"None">>

_is_linux(platform) == startswith(platform, "linux")
_is_macos(platform) == platform = "darwin"
_is_windows(platform) == startswith(platform, "win")

_platform_dotenv_path(platform) ==
    IF _is_linux(platform)
    THEN PosixPath(XDG_CONFIG_HOME) \o <<slug, ".env">>
    ELSE IF _is_macos(platform)
    THEN PosixPath(LIB_LAYERED_CONFIG_MAC_HOME_ROOT) \o <<vendor, application, ".env">>
    ELSE IF _is_windows(platform)
    THEN PosixPath(LIB_LAYERED_CONFIG_APPDATA) \o <<vendor, application, ".env">>
    ELSE NoPath

RECURSIVE _project_dotenv_walk(_, _, _)
_project_dotenv_walk(fs, directories, seen) ==
    IF directories = <<>> THEN <<>>
    ELSE LET candidate == Append(Head(directories), ".env")
         IN  IF candidate \in seen
             THEN _project_dotenv_walk(fs, Tail(directories), seen)
             ELSE (IF is_file(fs, candidate) THEN <<PathStr(candidate)>> ELSE <<>>)
                  \o _project_dotenv_walk(fs, Tail(directories), seen \cup {candidate})

_project_dotenv_paths(fs, cwd) == _project_dotenv_walk(fs, WithParents(cwd), {})

\* DefaultPathResolver(..., cwd=cwd, platform=platform).dotenv()
_dotenv_paths(fs, cwd, platform) ==
    LET extra == _platform_dotenv_path(platform)
    IN  _project_dotenv_paths(fs, cwd)
        \o (IF extra # NoPath /\ is_file(fs, extra) THEN <<PathStr(extra)>> ELSE <<>>)

\* The texts a `.env` value can be, in a fixed order; a string value on the
\* heap is the index of its text.
Texts == <<"", "1", "2", "'2'">>
Str(text) == [t |-> "str", n |-> CHOOSE i \in DOMAIN Texts : Texts[i] = text]

\* str.strip() for blanks.
RECURSIVE strip(_)
strip(text) ==
    IF startswith(text, " ") THEN strip(SubSeq(text, 2, Len(text)))
    ELSE IF endswith(text, " ") THEN strip(SubSeq(text, 1, Len(text) - 1))
    ELSE text

_strip_quotes(value) ==
    LET hashes == {i \in 1..Len(value) - 1 : SubSeq(value, i, i + 1) = " #"}
    IN  IF Len(value) >= 2 /\ SubSeq(value, 1, 1) = SubSeq(value, Len(value), Len(value))
            /\ SubSeq(value, 1, 1) \in {"\"", "'"}
        THEN SubSeq(value, 2, Len(value) - 1)
        ELSE IF startswith(value, "#") THEN ""
        ELSE IF hashes # {}
        THEN strip(SubSeq(value, 1, (CHOOSE i \in hashes : \A j \in hashes : i <= j) - 1))
        ELSE value

\* The loop of _parse_dotenv from line `line_number` on.
RECURSIVE _parse_lines(_, _, _, _, _)
_parse_lines(h, result, lines, line_number, path) ==
    IF lines = <<>> THEN [h |-> h, error |-> NoError]
    ELSE LET line == strip(Head(lines))
             equals == {i \in 1..Len(line) : SubSeq(line, i, i) = "="}
         IN  IF line = "" \/ startswith(line, "#")
             THEN _parse_lines(h, result, Tail(lines), line_number + 1, path)
             ELSE IF equals = {}
             THEN [h |-> h,
                   error |-> InvalidFormat(<<"Malformed line ", line_number, " in ",
                                             PathStr(path)>>)]
             ELSE LET i == CHOOSE c \in equals : \A d \in equals : c <= d
                      key == strip(SubSeq(line, 1, i - 1))
                      value == _strip_quotes(strip(SubSeq(line, i + 1, Len(line))))
                      r == assign_nested(h, result, key, Str(value), "InvalidFormat")
                  IN  IF r.error # NoError THEN r
                      ELSE _parse_lines(r.h, result, Tail(lines), line_number + 1, path)

_parse_dotenv(h, fs, path) ==
    LET h0 == Alloc(h, EmptyDict)
        r == _parse_lines(h0, Len(h0), fs[path].lines, 1, path)
    IN  [h |-> r.h, data |-> Len(h0), error |-> r.error]

_iter_candidates(start_dir) ==
    [i \in 1..Len(WithParents(start_dir)) |-> Append(WithParents(start_dir)[i], ".env")]

\* Mutant: every candidate that is a file is parsed into the one result.
RECURSIVE _load_candidates_merging(_, _, _, _, _)
_load_candidates_merging(h, fs, candidates, result, last) ==
    IF candidates = <<>>
    THEN [h |-> h, data |-> result, error |-> NoError, last_loaded_path |-> last]
    ELSE IF is_file(fs, Head(candidates))
    THEN LET r == _parse_lines(h, result, fs[Head(candidates)].lines, 1, Head(candidates))
             here == IF last = "None" THEN PathStr(Head(candidates)) ELSE last
         IN  IF r.error # NoError
             THEN [h |-> r.h, data |-> 0, error |-> r.error, last_loaded_path |-> here]
             ELSE _load_candidates_merging(r.h, fs, Tail(candidates), result, here)
    ELSE _load_candidates_merging(h, fs, Tail(candidates), result, last)

\* Mutant of dotenv_load.
dotenv_load_merging(h, fs, start_dir, extras) ==
    LET h0 == Alloc(h, EmptyDict)
    IN  _load_candidates_merging(h0, fs,
            _iter_candidates(start_dir) \o [i \in DOMAIN extras |-> PosixPath(extras[i])],
            Len(h0), "None")

\* The loop of load over the candidates.
RECURSIVE _load_candidates(_, _, _)
_load_candidates(h, fs, candidates) ==
    IF candidates = <<>>
    THEN LET h0 == Alloc(h, EmptyDict)
         IN  [h |-> h0, data |-> Len(h0), error |-> NoError, last_loaded_path |-> "None"]
    ELSE IF is_file(fs, Head(candidates))
    THEN LET r == _parse_dotenv(h, fs, Head(candidates))
         IN  [h |-> r.h, data |-> IF r.error = NoError THEN r.data ELSE 0,
              error |-> r.error, last_loaded_path |-> PathStr(Head(candidates))]
    ELSE _load_candidates(h, fs, Tail(candidates))

\* DefaultDotEnvLoader(extras=extras).load(start_dir); yields the heap, the
\* mapping returned or the error raised, and the loader's last_loaded_path.
dotenv_load(h, fs, start_dir, extras) ==
    _load_candidates(h, fs,
        _iter_candidates(start_dir) \o [i \in DOMAIN extras |-> PosixPath(extras[i])])

(***************************************************************************)
(* SpecDotenv: the resolver's dotenv() and the loader's load() in every    *)
(* filesystem with at most MaxDotenv `.env` entries.                       *)
(***************************************************************************)
MaxDotenv == 2

\* The directories that may hold a `.env`, the working directories and the
\* platforms.
DotenvDirs == {<<>>, <<"home", "cfg", "app">>, <<"home", "cfg", "app", "sub">>,
               <<"home", "v", "a">>, <<"work">>}
WorkDirs == {<<"home", "cfg", "app", "sub">>, <<"home", "v", "a">>, <<"work">>}
Platforms == {"linux", "darwin", "win32", "posix"}

\* What a `.env` can be: a directory, or a file with one of these bodies
\* (the third has a malformed line).
DotenvFiles ==
    {[kind |-> "dir", lines |-> <<>>]}
        \cup {[kind |-> "file", lines |-> b] :
                 b \in {<<"A=1">>, <<"# c", "B__C = '2' # d">>, <<"A">>}}

Filesystems ==
    UNION {[{Append(d, ".env") : d \in ds} -> DotenvFiles] :
              ds \in {x \in SUBSET DotenvDirs : Cardinality(x) <= MaxDotenv}}

InitDotenv ==
    /\ world \in [fs : Filesystems, cwd : WorkDirs, platform : Platforms]
    /\ heap = <<>>
    /\ layers = <<>>
    /\ desc = <<>>
    /\ pc = "start"
    /\ ret = <<>>

\* resolver.dotenv()
ResolverDotenv ==
    /\ pc = "start"
    /\ ret' = <<[op |-> "dotenv", paths |-> _dotenv_paths(world.fs, world.cwd, world.platform)]>>
    /\ pc' = "done"
    /\ UNCHANGED <<heap, layers, desc, world>>

\* DefaultDotEnvLoader(extras=resolver.dotenv()).load(start_dir), as
\* _build_loaders and _dotenv_layer of core.py do.
LoaderLoad ==
    /\ pc = "start"
    /\ \E start_dir \in WorkDirs :
       \E r \in {dotenv_load(heap, world.fs, start_dir,
                             _dotenv_paths(world.fs, world.cwd, world.platform))} :
          /\ heap' = r.h
          /\ ret' = <<[op |-> "load", start_dir |-> start_dir, error |-> r.error,
                       mapping |-> Snapshot(r.h, IF r.error = NoError THEN Ref(r.data)
                                                 ELSE None),
                       last_loaded_path |-> r.last_loaded_path]>>
    /\ pc' = "done"
    /\ UNCHANGED <<layers, desc, world>>

NextDotenv ==
    \/ ResolverDotenv
    \/ LoaderLoad

SpecDotenv == InitDotenv /\ [][NextDotenv]_vars

(***************************************************************************)
(* examples/deploy.py: deploy_config, and the per-platform layers of       *)
(* DefaultPathResolver it is meant to mirror.  Paths are texts; a          *)
(* filesystem maps the path of each regular file to its content; it holds  *)
(* no symbolic link, so that resolve() of an absolute path is the path.    *)
(***************************************************************************)
FileNotFoundError(message) == [type |-> "FileNotFoundError", message |-> message]

hostname == "myhost"
Home == "/home/u"

\* env.get(name, default)
env_get(env, name, default) == IF name \in DOMAIN env THEN env[name] ELSE default

\* The directory as _collect_layer sees it: config.toml is looked up in the
\* filesystem, which holds no config.d.
DirAt(fs, base) ==
    [config_toml |-> IF base \o "/config.toml" \in DOMAIN fs THEN "file" ELSE "absent",
     config_d |-> "absent", listing |-> <<>>]

PathTexts(paths) == [i \in DOMAIN paths |-> PathText(paths[i])]

\* The candidate when it is a regular file.
IfFile(fs, candidate) == IF candidate \in DOMAIN fs THEN <<candidate>> ELSE <<>>

\* Path.exists() of a directory: some file lies below it.
DirExists(fs, base) == \E p \in DOMAIN fs : startswith(p, base \o "/")

_linux_app_paths(fs, env) ==
    LET etc_root == env_get(env, "LIB_LAYERED_CONFIG_ETC", "/etc")
    IN  PathTexts(_collect_layer(DirAt(fs, etc_root \o "/" \o slug), etc_root \o "/" \o slug))

_linux_host_paths(fs, env) ==
    LET etc_root == env_get(env, "LIB_LAYERED_CONFIG_ETC", "/etc")
    IN  IfFile(fs, etc_root \o "/" \o slug \o "/hosts/" \o hostname \o ".toml")

_linux_user_paths(fs, env) ==
    LET base == env_get(env, "XDG_CONFIG_HOME", Home \o "/.config")
    IN  PathTexts(_collect_layer(DirAt(fs, base \o "/" \o slug), base \o "/" \o slug))

_mac_app_paths(fs, env) ==
    LET root == env_get(env, "LIB_LAYERED_CONFIG_MAC_APP_ROOT", "/Library/Application Support")
        base == root \o "/" \o vendor \o "/" \o application
    IN  PathTexts(_collect_layer(DirAt(fs, base), base))

_mac_host_paths(fs, env) ==
    LET root == env_get(env, "LIB_LAYERED_CONFIG_MAC_APP_ROOT", "/Library/Application Support")
    IN  IfFile(fs, root \o "/" \o vendor \o "/" \o application \o "/hosts/" \o hostname \o ".toml")

_mac_user_paths(fs, env) ==
    LET home_root == env_get(env, "LIB_LAYERED_CONFIG_MAC_HOME_ROOT",
                             Home \o "/Library/Application Support")
        base == home_root \o "/" \o vendor \o "/" \o application
    IN  PathTexts(_collect_layer(DirAt(fs, base), base))

_program_data_root(env) ==
    env_get(env, "LIB_LAYERED_CONFIG_PROGRAMDATA", env_get(env, "ProgramData", "C:\\ProgramData"))

_appdata_root(env) ==
    env_get(env, "LIB_LAYERED_CONFIG_APPDATA", env_get(env, "APPDATA", Home \o "/AppData/Roaming"))

_localappdata_root(env) ==
    env_get(env, "LIB_LAYERED_CONFIG_LOCALAPPDATA",
            env_get(env, "LOCALAPPDATA", Home \o "/AppData/Local"))

_windows_app_paths(fs, env) ==
    LET base == _program_data_root(env) \o "/" \o vendor \o "/" \o application
    IN  PathTexts(_collect_layer(DirAt(fs, base), base))

_windows_host_paths(fs, env) ==
    LET base == _program_data_root(env) \o "/" \o vendor \o "/" \o application
    IN  IfFile(fs, base \o "/hosts/" \o hostname \o ".toml")

_windows_user_paths(fs, env) ==
    LET roaming == _appdata_root(env) \o "/" \o vendor \o "/" \o application
        base == IF ~DirExists(fs, roaming)
                THEN _localappdata_root(env) \o "/" \o vendor \o "/" \o application
                ELSE roaming
    IN  PathTexts(_collect_layer(DirAt(fs, base), base))

\* builders.get(layer, lambda: [])()
_linux_paths(fs, env, layer) ==
    CASE layer = "app" -> _linux_app_paths(fs, env)
      [] layer = "host" -> _linux_host_paths(fs, env)
      [] layer = "user" -> _linux_user_paths(fs, env)
      [] OTHER -> <<>>

_mac_paths(fs, env, layer) ==
    CASE layer = "app" -> _mac_app_paths(fs, env)
      [] layer = "host" -> _mac_host_paths(fs, env)
      [] layer = "user" -> _mac_user_paths(fs, env)
      [] OTHER -> <<>>

_windows_paths(fs, env, layer) ==
    CASE layer = "app" -> _windows_app_paths(fs, env)
      [] layer = "host" -> _windows_host_paths(fs, env)
      [] layer = "user" -> _windows_user_paths(fs, env)
      [] OTHER -> <<>>

\* resolver.app(), .host(), .user() of DefaultPathResolver(platform=platform)
_platform_paths(fs, env, platform, layer) ==
    IF _is_linux(platform) THEN _linux_paths(fs, env, layer)
    ELSE IF _is_macos(platform) THEN _mac_paths(fs, env, layer)
    ELSE IF _is_windows(platform) THEN _windows_paths(fs, env, layer)
    ELSE <<>>

_VALID_TARGETS == {"app", "host", "user"}

_resolve_for_linux(env, target) ==
    LET etc_root == env_get(env, "LIB_LAYERED_CONFIG_ETC", "/etc")
    IN  CASE target = "app" -> etc_root \o "/" \o slug \o "/config.toml"
          [] target = "host" -> etc_root \o "/" \o slug \o "/hosts/" \o hostname \o ".toml"
          [] target = "user" ->
                env_get(env, "XDG_CONFIG_HOME", Home \o "/.config") \o "/" \o slug
                    \o "/config.toml"
          [] OTHER -> "None"

_resolve_for_macos(env, target) ==
    LET app_root == env_get(env, "LIB_LAYERED_CONFIG_MAC_APP_ROOT",
                            "/Library/Application Support")
                        \o "/" \o vendor \o "/" \o application
    IN  CASE target = "app" -> app_root \o "/config.toml"
          [] target = "host" -> app_root \o "/hosts/" \o hostname \o ".toml"
          [] target = "user" ->
                env_get(env, "LIB_LAYERED_CONFIG_MAC_HOME_ROOT",
                        Home \o "/Library/Application Support")
                    \o "/" \o vendor \o "/" \o application \o "/config.toml"
          [] OTHER -> "None"

_resolve_for_windows(env, target) ==
    LET program_data == env_get(env, "LIB_LAYERED_CONFIG_PROGRAMDATA",
                                env_get(env, "ProgramData", "C:\\ProgramData"))
        appdata == env_get(env, "LIB_LAYERED_CONFIG_APPDATA",
                           env_get(env, "APPDATA", Home \o "/AppData/Roaming"))
    IN  CASE target = "app" ->
                program_data \o "/" \o vendor \o "/" \o application \o "/config.toml"
          [] target = "host" ->
                program_data \o "/" \o vendor \o "/" \o application \o "/hosts/"
                    \o hostname \o ".toml"
          [] target = "user" ->
                appdata \o "/" \o vendor \o "/" \o application \o "/config.toml"
          [] OTHER -> "None"

_resolve_destination(platform, env, target) ==
    IF startswith(platform, "linux") \/ platform = "linux"
    THEN _resolve_for_linux(env, target)
    ELSE IF platform = "darwin" THEN _resolve_for_macos(env, target)
    ELSE IF startswith(platform, "win") THEN _resolve_for_windows(env, target)
    ELSE _resolve_for_linux(env, target)

\* Mutant: force is not consulted, an existing destination is overwritten.
_should_copy_always(fs, source, destination, force) ==
    destination # source

_should_copy(fs, source, destination, force) ==
    IF destination = source THEN FALSE
    ELSE IF destination \in DOMAIN fs /\ ~force THEN FALSE
    ELSE TRUE

\* destination.parent.mkdir(parents=True, exist_ok=True); write_bytes
_copy_payload(fs, destination, payload) ==
    [p \in DOMAIN fs \cup {destination} |-> IF p = destination THEN payload ELSE fs[p]]

\* The loop of deploy_config over the generator _destinations_for: a target
\* is checked when the loop reaches it.
RECURSIVE _deploy_each(_, _, _, _, _, _, _, _)
_deploy_each(fs, env, platform, source, payload, targets, force, created) ==
    IF targets = <<>> THEN [fs |-> fs, created |-> created, error |-> NoError]
    ELSE LET raw_target == Head(targets)
             target == lowered(raw_target)
             destination == _resolve_destination(platform, env, target)
         IN  IF target \notin _VALID_TARGETS
             THEN [fs |-> fs, created |-> <<>>,
                   error |-> ValueError(<<"Unsupported deployment target: ", raw_target>>)]
             ELSE IF destination = "None" \/ ~_should_copy(fs, source, destination, force)
             THEN _deploy_each(fs, env, platform, source, payload, Tail(targets), force,
                               created)
             ELSE _deploy_each(_copy_payload(fs, destination, payload), env, platform,
                               source, payload, Tail(targets), force,
                               Append(created, destination))

\* deploy_config(source, vendor=vendor, app=application, targets=targets,
\* slug=slug, platform=platform, force=force) under the environment env.
deploy_config(fs, env, source, targets, platform, force) ==
    IF source \notin DOMAIN fs
    THEN [fs |-> fs, created |-> <<>>,
          error |-> FileNotFoundError(<<"Configuration source not found: ", source>>)]
    ELSE _deploy_each(fs, env, platform, source, fs[source], targets, force, <<>>)

(***************************************************************************)
(* SpecDeploy: deploy_config for every platform identifier, environment,   *)
(* force flag, up to MaxTargets targets and every set of files already at  *)
(* the places of the platform's layers.                                    *)
(***************************************************************************)
MaxTargets == 2

DeployPlatforms == {"linux", "darwin", "win32", "windows", "posix"}

\* No override, and the overrides of the test sandbox.
DeployEnvs ==
    {<<>>,
     [n \in {"LIB_LAYERED_CONFIG_ETC", "XDG_CONFIG_HOME", "LIB_LAYERED_CONFIG_MAC_APP_ROOT",
             "LIB_LAYERED_CONFIG_MAC_HOME_ROOT", "LIB_LAYERED_CONFIG_PROGRAMDATA",
             "LIB_LAYERED_CONFIG_APPDATA", "LIB_LAYERED_CONFIG_LOCALAPPDATA"} |->
        CASE n = "LIB_LAYERED_CONFIG_ETC" -> "/sb/etc"
          [] n = "XDG_CONFIG_HOME" -> "/sb/xdg"
          [] n = "LIB_LAYERED_CONFIG_MAC_APP_ROOT" -> "/sb/mac-app"
          [] n = "LIB_LAYERED_CONFIG_MAC_HOME_ROOT" -> "/sb/mac-home"
          [] n = "LIB_LAYERED_CONFIG_PROGRAMDATA" -> "/sb/programdata"
          [] n = "LIB_LAYERED_CONFIG_APPDATA" -> "/sb/appdata"
          [] OTHER -> "/sb/local"]}

TargetNames == {"app", "host", "user", "APP", "invalid"}
TargetLists == UNION {[1..n -> TargetNames] : n \in 0..MaxTargets}

\* The place of the file of a layer on the platform; an identifier of no
\* family is given the places of Linux.
LayerFile(env, platform, layer) ==
    LET family == IF _is_macos(platform) THEN "mac"
                  ELSE IF _is_windows(platform) THEN "windows" ELSE "linux"
        root == CASE family = "linux" /\ layer = "user" ->
                        env_get(env, "XDG_CONFIG_HOME", Home \o "/.config") \o "/" \o slug
                  [] family = "linux" /\ layer # "user" ->
                        env_get(env, "LIB_LAYERED_CONFIG_ETC", "/etc") \o "/" \o slug
                  [] family = "mac" /\ layer = "user" ->
                        env_get(env, "LIB_LAYERED_CONFIG_MAC_HOME_ROOT",
                                Home \o "/Library/Application Support")
                            \o "/" \o vendor \o "/" \o application
                  [] family = "mac" /\ layer # "user" ->
                        env_get(env, "LIB_LAYERED_CONFIG_MAC_APP_ROOT",
                                "/Library/Application Support")
                            \o "/" \o vendor \o "/" \o application
                  [] family = "windows" /\ layer = "user" ->
                        _appdata_root(env) \o "/" \o vendor \o "/" \o application
                  [] OTHER -> _program_data_root(env) \o "/" \o vendor \o "/" \o application
    IN  root \o (IF layer = "host" THEN "/hosts/" \o hostname \o ".toml" ELSE "/config.toml")

SourceFile == "/src/source.toml"

\* The filesystem before the call: the source, unless it is missing, and
\* old files at the places of some layers.
DeployWorlds ==
    {[fs |-> [p \in {LayerFile(env, platform, l) : l \in existing}
                    \cup (IF source_is_file THEN {SourceFile} ELSE {}) |->
                 IF p = SourceFile THEN "new" ELSE "old"],
      env |-> env, platform |-> platform, source |-> source, targets |-> targets,
      force |-> force] :
        env \in DeployEnvs, platform \in DeployPlatforms, existing \in SUBSET _VALID_TARGETS,
        source_is_file \in BOOLEAN, targets \in TargetLists, force \in BOOLEAN,
        source \in {SourceFile, LayerFile(<<>>, "linux", "app")}}

InitDeploy ==
    /\ world \in DeployWorlds
    /\ heap = <<>>
    /\ layers = <<>>
    /\ desc = <<>>
    /\ pc = "start"
    /\ ret = <<>>

DeployConfig ==
    /\ pc = "start"
    /\ \E r \in {deploy_config(world.fs, world.env, world.source, world.targets,
                               world.platform, world.force)} :
          ret' = <<r>>
    /\ pc' = "done"
    /\ UNCHANGED <<heap, layers, desc, world>>

NextDeploy == DeployConfig

SpecDeploy == InitDeploy /\ [][NextDeploy]_vars

(***************************************************************************)
(* Vocabulary of the properties.  The payloads as the caller wrote them    *)
(* are kept in desc; desc[i] is the payload of layers[i].                  *)
(***************************************************************************)
Range(f) == {f[i] : i \in DOMAIN f}

\* No key of the payload contains a "."
DotFree(d) == \A e \in Range(d) : \A i \in 1..Len(e.p) : Len(e.p[i]) = 1

\* The key path that get() follows for a dotted path: one key per atom.
Walk(p) == [i \in 1..Len(p) |-> <<p[i]>>]

\* The non-mapping leaves a payload holds at the dotted path p.
ScalarAt(d, p) == {e \in Range(d) : e.p = Walk(p) /\ e.kind # "empty"}

Dotted(d) == {Join(e.p) : e \in Range(d)}

Leaf(e) == [kind |-> e.kind, c |-> e.c]

TheConfig == Config(heap, ret[1].id, ret[1].meta)

Precedence(p) ==
    \A ea \in ScalarAt(desc[1], p), eb \in ScalarAt(desc[2], p) :
        Leaf(ea) # Leaf(eb) =>
            /\ Obs(TheConfig.h, get(TheConfig, p, None)) = Leaf(eb)
            /\ origin(TheConfig, p).layer = layers[2].name
            /\ origin(TheConfig, p).path = layers[2].path

\* C1 as stated: for payloads A then B and every dotted path p at which both
\* hold different scalars, get(p) is B's value and origin(p) names B.
C1_AsStated ==
    pc = "merged" => \A p \in Dotted(desc[1]) : Precedence(p)

\* C1 amended: the same, provided no key of the later payload B contains a ".".
C1_Precedence ==
    (pc = "merged" /\ DotFree(desc[2])) => \A p \in Dotted(desc[1]) : Precedence(p)

C1_Witness ==
    /\ pc = "merged"
    /\ DotFree(desc[2])
    /\ \E p \in Dotted(desc[1]) :
          \E ea \in ScalarAt(desc[1], p), eb \in ScalarAt(desc[2], p) :
              /\ Leaf(ea) # Leaf(eb)
              /\ origin(TheConfig, p).layer = layers[2].name

(***************************************************************************)
(* Provenance invariants, over every sequence of payloads (SpecFold).      *)
(***************************************************************************)
\* The payloads that hold a non-mapping leaf at the key path P.
Writers(P) ==
    {i \in 1..Len(desc) : \E e \in Range(desc[i]) : e.p = P /\ e.kind # "empty"}


\* The entry the last writer of the leaf l leaves behind.
WinningEntry(l) ==
    LET w == Max(Writers(l.p))
    IN  [layer |-> layers[w].name, path |-> layers[w].path, key |-> Join(l.p)]

HasWinningEntry(l) ==
    /\ Writers(l.p) # {}
    /\ \E e \in Range(desc[Max(Writers(l.p))]) : e.p = l.p /\ Leaf(e) = Leaf(l)
    /\ Join(l.p) \in DOMAIN ret[1].meta
    /\ ret[1].meta[Join(l.p)] = WinningEntry(l)

TreeLeaves == {l \in ret[1].tree : l.kind # "empty"}

\* C2 as stated: every non-mapping leaf of the merged tree has a provenance
\* entry under its dotted path, naming the last payload that wrote the leaf.
C2_AsStated ==
    pc = "merged" => \A l \in TreeLeaves : HasWinningEntry(l)

\* C2 amended: the same, provided no key of any payload contains a ".".
C2_LeafHasEntry ==
    (pc = "merged" /\ \A i \in 1..Len(desc) : DotFree(desc[i]))
        => \A l \in TreeLeaves : HasWinningEntry(l)

\* A leaf written by the first payload and overwritten by the last one.
C2_Witness ==
    /\ pc = "merged"
    /\ \A i \in 1..Len(desc) : DotFree(desc[i])
    /\ \E l \in TreeLeaves :
          /\ Cardinality(Writers(l.p)) >= 2
          /\ HasWinningEntry(l)
          /\ ret[1].meta[Join(l.p)].layer # layers[1].name

\* C3: every key of the provenance index is the dotted path of a non-mapping
\* leaf that is in the merged tree, and the entry is the one its last writer
\* left: no entry of replaced content survives.
C3_EntriesAreLive ==
    pc = "merged" =>
        \A k \in DOMAIN ret[1].meta :
            \E l \in TreeLeaves :
                /\ Join(l.p) = k
                /\ Writers(l.p) # {}
                /\ ret[1].meta[k] = WinningEntry(l)

\* A later payload replaced a populated mapping by a scalar, or a scalar by
\* a mapping, or reset a nested branch, and the provenance index is not empty.
C3_Witness ==
    /\ pc = "merged"
    /\ DOMAIN ret[1].meta # {}
    /\ \E i, j \in 1..Len(desc) :
          /\ i < j
          /\ \E e \in Range(desc[i]), f \in Range(desc[j]) :
                /\ e.kind # "empty"
                /\ IsPrefix(f.p, e.p) /\ f.p # e.p
                /\ Join(e.p) \notin DOMAIN ret[1].meta

(***************************************************************************)
(* Properties of merge_layers([A, B]) (Spec).                              *)
(***************************************************************************)
\* The entries of payload d strictly below the key path P.
Under(d, P) == {e \in Range(d) : IsPrefix(P, e.p) /\ Len(e.p) > Len(P)}

\* The leaves of the set S at or below the key path P.
AtOrUnder(S, P) == {e \in S : IsPrefix(P, e.p)}

\* Payload d holds a mapping (empty or not) at the top-level key K.
HoldsMappingAt(d, K) ==
    \E e \in Range(d) : e.p[1] = K /\ (Len(e.p) > 1 \/ e.kind = "empty")

\* The tree holds a mapping at the key path P.
MappingAt(tree, P) ==
    \E l \in tree : IsPrefix(P, l.p) /\ (l.p = P => l.kind = "empty")

EmptyAt(P) == [p |-> P, kind |-> "empty", c |-> <<>>]

\* C4 as stated: when the later payload supplies an empty mapping for a
\* top-level key the earlier payload populated, the key is an empty mapping
\* in the merged tree and no provenance entry at or below it remains.
C4_AsStated ==
    pc = "merged" =>
        \A f \in Range(desc[2]) :
            (f.kind = "empty" /\ Len(f.p) = 1 /\ Under(desc[1], f.p) # {}) =>
                /\ EmptyAt(f.p) \in ret[1].tree
                /\ \A e \in Under(desc[1], f.p) : Join(e.p) \notin DOMAIN ret[1].meta

ExampleA == <<[p |-> <<A, B>>, kind |-> "scalar", c |-> <<1>>]>>
ExampleB == <<[p |-> <<A>>, kind |-> "empty", c |-> <<>>]>>

\* C4 amended: merge_layers([{"a": {"b": 1}}, {"a": {}}]) keeps a == {"b": 1}
\* and the first layer's entry for a.b.  An empty mapping for a top-level key
\* under which the earlier payload left a mapping leaves that branch of the
\* merged tree as it was; an empty mapping at a nested path, or for a
\* top-level key whose earlier value is a scalar or absent, leaves an empty
\* mapping at that path.
C4_EmptyMapping ==
    pc = "merged" =>
        /\ (desc = <<ExampleA, ExampleB>>) =>
              /\ ret[1].tree = Range(ExampleA)
              /\ ret[1].meta = (AB :> [layer |-> layers[1].name,
                                       path |-> layers[1].path, key |-> AB])
        /\ \A f \in Range(desc[2]) :
              f.kind = "empty" =>
                  IF Len(f.p) = 1 /\ HoldsMappingAt(desc[1], f.p[1])
                  THEN AtOrUnder(ret[1].tree, f.p) = AtOrUnder(Range(desc[1]), f.p)
                  ELSE EmptyAt(f.p) \in ret[1].tree

C4_Witness ==
    /\ pc = "merged"
    /\ desc = <<ExampleA, ExampleB>>
    /\ Range(ExampleA) \subseteq ret[1].tree

\* C9: every top-level entry of the later payload that is not an empty
\* mapping is contained in the merged tree: its scalars are there with the
\* same value and its mappings are mappings.
C9_LastLayerWins ==
    pc = "merged" =>
        \A e \in Range(desc[2]) :
            (~(Len(e.p) = 1 /\ e.kind = "empty")
                /\ e.p[1] \in {l.p[1] : l \in ret[1].tree}) =>
                    IF e.kind = "empty" THEN MappingAt(ret[1].tree, e.p)
                    ELSE e \in ret[1].tree

\* The later payload overwrote a different leaf of the earlier one.
C9_Witness ==
    /\ pc = "merged"
    /\ \E e \in Range(desc[2]), ea \in Range(desc[1]) :
          /\ e.p = ea.p /\ e.kind = "scalar" /\ Leaf(e) # Leaf(ea)
          /\ e \in ret[1].tree

\* The provenance index after merging the earlier payload alone.
MetaOfFirst == merge_layers(heap, <<layers[1]>>).meta

SiblingsKept(P) ==
    \A ea \in Under(desc[1], P) :
        LET Q == SubSeq(ea.p, 1, Len(P) + 1)
        IN  (\A f \in Under(desc[2], P) : ~IsPrefix(Q, f.p)) =>
                /\ AtOrUnder(ret[1].tree, Q) = AtOrUnder(Range(desc[1]), Q)
                /\ \A e \in AtOrUnder(Range(desc[1]), Q) :
                      LET k == Join(e.p)
                      IN  /\ k \in DOMAIN MetaOfFirst <=> k \in DOMAIN ret[1].meta
                          /\ k \in DOMAIN MetaOfFirst => ret[1].meta[k] = MetaOfFirst[k]

\* The paths at which both payloads hold a non-empty mapping.
SharedBranches ==
    {P \in UNION {{SubSeq(e.p, 1, n) : n \in 1..Len(e.p)} : e \in Range(desc[1])} :
        Under(desc[1], P) # {} /\ Under(desc[2], P) # {}}

\* C10 as stated: under a path where both payloads hold a non-empty mapping,
\* every key the later payload does not mention keeps the earlier payload's
\* value and provenance entry.
C10_AsStated ==
    pc = "merged" => \A P \in SharedBranches : SiblingsKept(P)

\* C10 amended: the same, provided no key of the later payload contains a ".".
C10_SiblingsKept ==
    (pc = "merged" /\ DotFree(desc[2])) => \A P \in SharedBranches : SiblingsKept(P)

C10_Witness ==
    /\ pc = "merged"
    /\ DotFree(desc[2])
    /\ \E P \in SharedBranches :
          \E ea \in Under(desc[1], P) :
              /\ \A f \in Under(desc[2], P) : ~IsPrefix(SubSeq(ea.p, 1, Len(P) + 1), f.p)
              /\ ea.kind = "scalar"
              /\ ea \in ret[1].tree
              /\ Join(ea.p) \in DOMAIN ret[1].meta
              /\ ret[1].meta[Join(ea.p)].layer = layers[1].name

(***************************************************************************)
(* Associativity (SpecAssoc).                                              *)
(***************************************************************************)
\* C5: merge([a, b, c]) and merge([T, c]), T the merged tree of
\* merge([a, b]) passed back as one payload, return equal trees.
C5_Reflattening ==
    pc = "done" => ret[1].tree = ret[6].tree

\* The three payloads meet at one key and the later ones change the tree.
C5_Witness ==
    /\ pc = "done"
    /\ ret[5].tree # ret[6].tree
    /\ ret[5].tree # Range(desc[1])
    /\ ret[6].tree # {}
    /\ \A i \in 1..3 : desc[i] # <<>>

\* C6: merge([L, rhs]), L the tree of merge([lhs, mid, rhs]), and
\* merge([lhs, R]), R the tree of merge([mid, rhs]), return equal trees.
C6_PreAggregation ==
    Len(ret) >= 4 => ret[2].tree = ret[4].tree

(***************************************************************************)
(* Isolation of inputs and result (SpecAlias).                             *)
(***************************************************************************)
InitialHeap == BuildLayers(<<>>, desc, <<>>).h

\* C8: merge_layers leaves every input object as it was, the returned tree
\* shares no object with an input, and a later mutation of one side does
\* not show on the other.
C8_Isolation ==
    /\ pc \in {"merged", "mutated_merged"} =>
          SubSeq(heap, 1, Len(InitialHeap)) = InitialHeap
    /\ pc \in {"merged", "mutated_input"} =>
          Tree(heap, ret[1].id) = ret[1].tree
    /\ pc = "merged" => Reach(heap, ret[1].id) \cap InputObjects = {}

\* A list that came from an input was mutated in the returned tree.
C8_Witness ==
    /\ pc = "mutated_merged"
    /\ \E l \in Tree(heap, ret[1].id) : l.kind = "list" /\ Len(l.c) = 2
    /\ \E i \in 1..Len(desc) : \E e \in Range(desc[i]) : e.kind = "list"
    /\ SubSeq(heap, 1, Len(InitialHeap)) = InitialHeap

(***************************************************************************)
(* The Config value (SpecConfig).                                          *)
(***************************************************************************)
GetAtoms == {"a", "b", "c", ""}
\* The dotted paths asked of get(): "a", "a.b", "", "a.", ".a.b", ... up to
\* one segment more than the deepest mapping of a payload.
GetPaths == UNION {[1..n -> GetAtoms] : n \in 1..(Max({Len(p) : p \in ConfigPaths}) + 1)}

\* A default no payload holds.
Fallback == Scalar(MaxScalar + 1)

\* The entries of the constructor's payload at or below the walk of p.
Below(p) == {e \in Range(desc[1]) : IsPrefix(Walk(p), e.p)}

\* What the walk of p ends on, read off the payload the caller wrote.
Expected(p) ==
    IF Below(p) = {} THEN Obs(heap, Fallback)
    ELSE IF \E e \in Below(p) : e.p = Walk(p) /\ e.kind # "empty"
         THEN Leaf(CHOOSE e \in Below(p) : e.p = Walk(p))
         ELSE [kind |-> "dict", c |-> <<>>]

\* C15: get(path) splits the path at every "." and walks one mapping level
\* per segment; it returns the value the walk ends on when every segment is
\* a key of a mapping, the default otherwise (None without a default), and
\* it never raises, whatever the path.
C15_GetWalks ==
    pc = "built" =>
        \A p \in GetPaths :
            /\ get(Cfg(1), p, Fallback) # Raised
            /\ Obs(heap, get(Cfg(1), p, Fallback)) = Expected(p)
            /\ Below(p) = {} => get(Cfg(1), p, None) = None

\* The Config holds a scalar at "a" and a list at "c" next to it is absent:
\* get("a.b") has to walk into the scalar, get("") meets no key.
C15_Witness ==
    /\ pc = "built"
    /\ \E e \in Range(desc[1]) : e.p = <<A>> /\ e.kind = "scalar"
    /\ get(Cfg(1), <<"a", "b">>, Fallback) = Fallback
    /\ get(Cfg(1), <<"">>, None) = None
    /\ get(Cfg(1), <<"a">>, Fallback) = Scalar(1)

\* C16: whatever the caller does to the value as_dict() returned, at any
\* depth, the Config answers get(), indexing and as_dict() as before: the
\* export equals the Config's tree, shares no object with it, and a
\* mutation of any exported object leaves the Config's tree as it was.
C16_AsDictIsolation ==
    /\ pc = "exported" =>
          /\ ret[2].tree = ret[1].tree
          /\ Reach(heap, ret[2].id) \cap Reach(heap, ret[1].id) = {}
    /\ pc \in {"exported", "exported_mutated"} =>
          /\ Tree(heap, ret[1].id) = ret[1].tree
          /\ LET again == as_dict(Cfg(1))
             IN  Tree(again.h, again.id) = ret[1].tree

\* The exported copy of a list nested in a mapping was appended to.
C16_Witness ==
    /\ pc = "exported_mutated"
    /\ \E l \in Tree(heap, ret[2].id) : l.kind = "list" /\ Len(l.c) = 2 /\ Len(l.p) = 2
    /\ \E l \in ret[1].tree : l.kind = "list" /\ Len(l.p) = 2
    /\ Tree(heap, ret[2].id) # ret[2].tree

\* C17: no caller operation on a value obtained from an accessor of the
\* Config, on the mapping passed to its constructor, or on a Config derived
\* from it, changes what the Config returns from get() and origin().
C17_Immutable ==
    pc \in {"accessed_mutated", "source_mutated", "derived_mutated"} =>
        \A p \in GetPaths :
            Obs(heap, get(Cfg(1), p, Fallback)) =
                IF \E l \in ret[1].tree : l.p = Walk(p) /\ l.kind # "empty"
                THEN Leaf(CHOOSE l \in ret[1].tree : l.p = Walk(p))
                ELSE IF \E l \in ret[1].tree : IsPrefix(Walk(p), l.p)
                     THEN [kind |-> "dict", c |-> <<>>]
                     ELSE Obs(heap, Fallback)

\* The top-level keys of a payload.
TopKeys(d) == {e.p[1] : e \in Range(d)}

\* The top-level keys of a Config, in iteration order.
Keys(n) == [i \in 1..Len(heap[ret[n].id].items) |-> heap[ret[n].id].items[i].k]

\* C18: with_overrides(overrides) returns a Config whose value at a
\* top-level key is the override's when the override has the key (nothing of
\* the base's entries under that key is kept) and the base's otherwise, and
\* whose origin(p) is the base's origin(p) for every path p.
C18_ShallowReplace ==
    pc = "derived" =>
        /\ ret[2].tree = {e \in Range(desc[1]) : e.p[1] \notin TopKeys(desc[2])}
                             \cup Range(desc[2])
        /\ \A k \in TopKeys(desc[2]) :
               __getitem__(Cfg(2), k) =
                   __getitem__([h |-> heap, data |-> layers[2].data, meta |-> EmptyMeta], k)
        /\ \A p \in GetPaths : origin(Cfg(2), p) = origin(Cfg(1), p)

\* The base holds a.b, the override replaces "a" by a mapping without b:
\* the derived Config has lost a.b and still reports the base's origin.
C18_Witness ==
    /\ pc = "derived"
    /\ \E e \in Range(desc[1]) : e.p = <<A, B>> /\ e.kind = "scalar"
    /\ \E e \in Range(desc[2]) : e.p = <<A, C>>
    /\ get(Cfg(2), <<"a", "b">>, None) = None
    /\ get(Cfg(1), <<"a", "b">>, None) = Scalar(1)
    /\ origin(Cfg(2), <<"a", "b">>).layer = "app"

\* C19: with_overrides leaves the Config it is called on as it was (its
\* top-level keys, every get and every origin) and returns another instance.
C19_BaseUnchanged ==
    pc = "derived" =>
        /\ Tree(heap, ret[1].id) = ret[1].tree
        /\ Tree(heap, ret[1].id) = Range(desc[1])
        /\ Keys(1) = [i \in 1..Len(heap[layers[1].data].items) |->
                          heap[layers[1].data].items[i].k]
        /\ {Keys(1)[i] : i \in 1..Len(Keys(1))} = TopKeys(desc[1])
        /\ \A p \in GetPaths :
               origin(Cfg(1), p) = IF p \in DOMAIN MetaOfFirst THEN MetaOfFirst[p] ELSE NoSource
        /\ ret[2].id # ret[1].id

\* The override replaced a key the base holds and added one it lacks.
C19_Witness ==
    /\ pc = "derived"
    /\ TopKeys(desc[1]) \cap TopKeys(desc[2]) # {}
    /\ TopKeys(desc[2]) \ TopKeys(desc[1]) # {}
    /\ ret[2].tree # ret[1].tree

(***************************************************************************)
(* Candidate files of a layer (SpecResolve).                               *)
(***************************************************************************)
\* The names of the regular files of config.d that carry an allowed suffix,
\* whatever its case.
Eligible ==
    {e.name : e \in {x \in Range(world.listing) :
                        /\ x.kind = "file"
                        /\ Len(x.name) = 2 /\ x.name[1] # ""
                        /\ x.name[2] \in {"toml", "TOML", "yaml", "Yml", "yml", "json"}}}

\* Eligible in the order of the names' text.
Ascending ==
    CHOOSE f \in [1..Cardinality(Eligible) -> Eligible] :
        \A i, j \in 1..Cardinality(Eligible) : i < j => NameLess(f[i], f[j])

\* C20: the candidates of a layer are config.toml if it is a file, then
\* exactly the regular files of config.d with suffix .toml, .yaml, .yml or
\* .json in any case, in the order of their names; whatever is missing (or
\* is not of the expected kind) adds nothing, and nothing is raised.
C20_Candidates ==
    pc = "resolved" =>
        [i \in 1..Len(ret[1]) |-> PathText(ret[1][i])] =
            (IF world.config_toml = "file" THEN <<"/etc/app/config.toml">> ELSE <<>>)
            \o [i \in 1..Cardinality(Eligible) |->
                   "/etc/app/config.d/" \o NameText(Ascending[i])]

\* config.toml exists, config.d lists 60-f.json before 10-a.TOML next to
\* a text file: the result is config.toml, 10-a.TOML, 60-f.json.
C20_Witness ==
    /\ pc = "resolved"
    /\ world.listing = <<[name |-> <<"60-f", "json">>, kind |-> "file"],
                         [name |-> <<"30-c", "txt">>, kind |-> "file"],
                         [name |-> <<"10-a", "TOML">>, kind |-> "file"]>>
    /\ [i \in 1..Len(ret[1]) |-> PathText(ret[1][i])] =
           <<"/etc/app/config.toml", "/etc/app/config.d/10-a.TOML",
             "/etc/app/config.d/60-f.json">>

(***************************************************************************)
(* read_config (SpecRead).                                                 *)
(***************************************************************************)
\* The Config that read_config returned.
ReadCfg == [h |-> heap, data |-> ret[1].id, meta |-> ret[1].meta]

\* The source a layer entry was loaded from, and the payload it holds.
SourceOf(l) ==
    IF l.name = "env" THEN 6
    ELSE CHOOSE j \in 1..Len(SourcePaths) : PathText(SourcePaths[j]) = l.path
PayloadOf(l) == world.src[SourceOf(l)].d

\* The layer a source belongs to, and the precedence of a layer.
LayerOf == <<"app", "app", "host", "user", "dotenv", "env">>
LayerRank(name) == CHOOSE r \in 1..Len(LayerNames) : LayerNames[r] = name

Contributing == {j \in 1..Len(Sources) : world.src[j].kind = "ok" /\ world.src[j].d # <<>>}

\* The merged payloads that set the dotted path p to a scalar.
Setters(p) ==
    {i \in 1..Len(layers) : \E e \in Range(PayloadOf(layers[i])) :
                                e.p = Walk(p) /\ e.kind = "scalar"}

\* Payload k writes at p, above p or below p.
Touches(k, p) ==
    \E e \in Range(PayloadOf(layers[k])) : IsPrefix(e.p, Walk(p)) \/ IsPrefix(Walk(p), e.p)

ValueOf(i, p) == Scalar((CHOOSE e \in Range(PayloadOf(layers[i])) : e.p = Walk(p)).c[1])

ReadPaths == {<<"a">>, <<"a", "b">>}

\* C11 as stated: a path that several layers set to a scalar has the value
\* and the provenance layer of the highest of those layers.
C11_AsStated ==
    (pc = "done" /\ ret[1].kind = "config") =>
        \A p \in ReadPaths :
            Cardinality({layers[i].name : i \in Setters(p)}) >= 2 =>
                /\ get(ReadCfg, p, None) = ValueOf(Max(Setters(p)), p)
                /\ origin(ReadCfg, p).layer = layers[Max(Setters(p))].name

\* C11: the payloads reach the merge in the order app files, host file,
\* user files, dotenv, env, every contributing source once; and when no key
\* of a merged payload contains a "." and no payload merged after the last
\* one that sets a path to a scalar writes at, above or below that path,
\* get returns that payload's value and origin names its layer and file.
C11_LayerOrder ==
    (pc = "done" /\ ret[1].kind = "config") =>
        /\ \A i, j \in 1..Len(layers) :
               i < j => /\ LayerRank(layers[i].name) <= LayerRank(layers[j].name)
                        /\ SourceOf(layers[i]) # SourceOf(layers[j])
        /\ {SourceOf(layers[i]) : i \in 1..Len(layers)} = Contributing
        /\ \A i \in 1..Len(layers) : layers[i].name = LayerOf[SourceOf(layers[i])]
        /\ \A p \in ReadPaths :
               (/\ Setters(p) # {}
                /\ \A i \in 1..Len(layers) : DotFree(PayloadOf(layers[i]))
                /\ \A k \in 1..Len(layers) : k > Max(Setters(p)) => ~Touches(k, p)) =>
                   /\ get(ReadCfg, p, None) = ValueOf(Max(Setters(p)), p)
                   /\ origin(ReadCfg, p).layer = layers[Max(Setters(p))].name
                   /\ origin(ReadCfg, p).path = layers[Max(Setters(p))].path

\* The app file, the .env file and the environment all set a.b: the
\* environment's value is returned and named.
C11_Witness ==
    /\ pc = "done" /\ ret[1].kind = "config"
    /\ Len(layers) = 3
    /\ Setters(<<"a", "b">>) = {1, 2, 3}
    /\ layers[1].name = "app" /\ layers[2].name = "dotenv" /\ layers[3].name = "env"
    /\ get(ReadCfg, <<"a", "b">>, None) = Scalar(6)
    /\ origin(ReadCfg, <<"a", "b">>).layer = "env"

\* The message of the raised error holds the text.
Names(text) == \E i \in 1..Len(ret[1].error.message) : ret[1].error.message[i] = text

MalformedFiles == {j \in 1..4 : world.src[j] = Malformed}

\* C12: when a file of the app, host or user layer does not parse,
\* read_config raises LayerLoadError naming that file's layer and path, and
\* returns no Config, whatever else had been loaded.
C12_MalformedAborts ==
    (pc = "done" /\ MalformedFiles # {}) =>
        /\ ret[1].kind = "raised"
        /\ ret[1].error.type = "LayerLoadError"
        /\ \E j \in MalformedFiles : Names(LayerOf[j]) /\ Names(PathText(SourcePaths[j]))
        /\ ret[1].id = 0 /\ ret[1].tree = {} /\ layers = <<>>

\* The app file and the host file loaded, then the user file did not parse.
C12_Witness ==
    /\ pc = "done"
    /\ world.src[1].kind = "ok" /\ world.src[1].d # <<>>
    /\ world.src[3].kind = "ok" /\ world.src[3].d # <<>>
    /\ world.src[4] = Malformed
    /\ ret[1].error.type = "LayerLoadError"
    /\ Names("user") /\ Names("/home/user/.config/app/config.toml")

\* C13: every InvalidFormat raised while a source is loaded, the malformed
\* line of a .env file included, reaches the caller as LayerLoadError with
\* a message naming the layer and the file.
C13_AlwaysWrapped ==
    (pc = "done" /\ \E j \in 1..5 : world.src[j] = Malformed) =>
        /\ ret[1].kind = "raised"
        /\ ret[1].error.type = "LayerLoadError"
        /\ \E j \in 1..5 : /\ world.src[j] = Malformed
                           /\ Names(LayerOf[j]) /\ Names(PathText(SourcePaths[j]))

\* C14: read_config returns EMPTY_CONFIG exactly when no source gave a
\* non-empty mapping and a Config of its own otherwise; EMPTY_CONFIG has no
\* key and get answers every path with the default.
C14_EmptyConfig ==
    /\ heap[EMPTY_CONFIG.data].items = <<>>
    /\ \A p \in GetPaths :
           /\ get([h |-> heap, data |-> EMPTY_CONFIG.data, meta |-> EMPTY_CONFIG.meta],
                  p, Fallback) = Fallback
           /\ get([h |-> heap, data |-> EMPTY_CONFIG.data, meta |-> EMPTY_CONFIG.meta],
                  p, None) = None
    /\ (pc = "done" /\ ret[1].kind = "config") =>
           /\ ret[1].id = EMPTY_CONFIG.data <=> Contributing = {}
           /\ Contributing # {} => /\ ret[1].id > Len(EmptyConfigHeap)
                                   /\ heap[ret[1].id].items # <<>>
                                   /\ \A j \in 1..Len(layers) : ret[1].id > layers[j].data

\* An empty app file and an empty .env file: sources exist, none gives a key.
C14_Witness ==
    /\ pc = "done" /\ ret[1].kind = "config"
    /\ world.src[1] = Ok(<<>>) /\ world.src[5] = Ok(<<>>)
    /\ ret[1].id = EMPTY_CONFIG.data
    /\ ret[1].tree = {}

\* C21: whatever the prefer order, the config.toml of a layer is loaded and
\* merged before every config.d entry of that layer.
C21_CanonicalFirst ==
    (pc = "done" /\ ret[1].kind = "config") =>
        \A i, j \in 1..Len(layers) :
            (/\ layers[i].path = PathText(SourcePaths[1])
             /\ layers[j].path = PathText(SourcePaths[2])) => i < j

\* C28: an incoming empty mapping at the key path P is a no-op (tree and
\* provenance are those of the accumulator) when P is a top-level key and the
\* accumulator holds a mapping there; in every other case the merged tree
\* holds an empty mapping at P and no provenance entry at or below the
\* dotted path of P is left.
C28_EmptyMappingRule ==
    pc = "merged" =>
        \A f \in Range(desc[2]) :
            f.kind = "empty" =>
                IF Len(f.p) = 1 /\ HoldsMappingAt(desc[1], f.p[1])
                THEN /\ ret[1].tree = Range(desc[1])
                     /\ ret[1].meta = MetaOfFirst
                ELSE /\ EmptyAt(f.p) \in ret[1].tree
                     /\ \A k \in DOMAIN ret[1].meta :
                           k # Join(f.p) /\ ~StartsWithDot(k, Join(f.p))
                     /\ \A k \in DOMAIN MetaOfFirst :
                           (k # Join(f.p) /\ ~StartsWithDot(k, Join(f.p))
                               /\ \A n \in 1..Len(f.p) - 1 :
                                     k # Join(SubSeq(f.p, 1, n))) =>
                               (k \in DOMAIN ret[1].meta /\ ret[1].meta[k] = MetaOfFirst[k])

\* The nested case on a populated branch: the accumulator holds a -> b -> c
\* and the later payload gives a -> b as an empty mapping.
C28_Witness ==
    /\ pc = "merged"
    /\ desc[2] = <<EmptyAt(<<A, B>>)>>
    /\ [p |-> <<A, B, C>>, kind |-> "scalar", c |-> <<1>>] \in Range(desc[1])
    /\ EmptyAt(<<A, B>>) \in ret[1].tree
    /\ DOMAIN ret[1].meta = {}

\* The name begins with the prefix when letter case is ignored.
StartsIgnoringCase(text, prefix) ==
    Len(prefix) <= Len(text) /\ lowered(SubSeq(text, 1, Len(prefix))) = lowered(prefix)

\* The nested lowercase keys of a variable of the namespace.
NestedKeys(name) ==
    split(lowered(SubSeq(name, Len(_normalize_prefix(world.prefix)) + 1, Len(name))))

InNamespace(name) ==
    /\ StartsIgnoringCase(name, _normalize_prefix(world.prefix))
    /\ Len(name) > Len(_normalize_prefix(world.prefix))

Missing == [t |-> "missing", n |-> 0, items |-> <<>>]

\* The value the snapshot holds under the nested keys.
RECURSIVE Lookup(_, _)
Lookup(s, keys) ==
    IF keys = <<>> THEN s
    ELSE IF \E i \in DOMAIN s.items : s.items[i].k = Head(keys)
         THEN Lookup(s.items[CHOOSE i \in DOMAIN s.items : s.items[i].k = Head(keys)].v,
                     Tail(keys))
         ELSE Missing

\* The key paths of the scalars of a snapshot.
RECURSIVE ScalarPaths(_)
ScalarPaths(s) ==
    IF s.t = "dict"
    THEN UNION {{<<s.items[i].k>> \o q : q \in ScalarPaths(s.items[i].v)} :
                   i \in DOMAIN s.items}
    ELSE {<<>>}

\* C24: when load(prefix) returns, every variable whose name begins with
\* prefix + "_" in any letter case, and whose nested keys no other such
\* variable shares or extends, is in the result under its lowercase nested
\* keys, and every scalar of the result stems from such a variable.
C24_CaseInsensitivePrefix ==
    (pc = "done" /\ ret[1].error = NoError) =>
        /\ \A i \in DOMAIN world.environ :
              (/\ InNamespace(world.environ[i].k)
               /\ \A j \in DOMAIN world.environ :
                     (j # i /\ InNamespace(world.environ[j].k)) =>
                        /\ ~IsPrefix(NestedKeys(world.environ[i].k),
                                     NestedKeys(world.environ[j].k))
                        /\ ~IsPrefix(NestedKeys(world.environ[j].k),
                                     NestedKeys(world.environ[i].k))) =>
                  Lookup(ret[1].mapping, NestedKeys(world.environ[i].k))
                      = Snapshot(heap, _coerce(world.environ[i].v))
        /\ \A q \in ScalarPaths(ret[1].mapping) :
              \E i \in DOMAIN world.environ :
                  InNamespace(world.environ[i].k) /\ NestedKeys(world.environ[i].k) = q

\* The outcome of the assignment is blocked: walking the non-final keys, one
\* resolves, without regard to case, to an existing value that is no mapping.
RECURSIVE Blocked(_, _)
Blocked(lit, parts) ==
    /\ Len(parts) > 1
    /\ LET hits == {i \in DOMAIN lit.items : lowered(lit.items[i].k) = lowered(Head(parts))}
       IN  /\ hits # {}
           /\ LET child == lit.items[CHOOSE i \in hits : \A j \in hits : i <= j].v
              IN  IF child.t = "dict" THEN Blocked(child, Tail(parts)) ELSE TRUE

\* C29: assign_nested raises the caller's error class exactly when a
\* non-final segment resolves to an existing value that is no mapping, and
\* then the target is what it was before the call, item for item; otherwise
\* no scalar the walk passes is replaced and the call returns.
C29_ScalarNotReplaced ==
    pc = "done" =>
        IF Blocked(world.target, split(world.key))
        THEN /\ ret[1].error.type = world.error_cls
             /\ ret[1].target = world.target
        ELSE ret[1].error = NoError

\* The call of test_assign_nested_overwrites_scalar_raises.
C29_Witness ==
    /\ pc = "done"
    /\ world.target = Literal("dict", 0, <<[k |-> "A", v |-> Literal("scalar", 1, <<>>)]>>)
    /\ world.key = "A__B"
    /\ ret[1].error.type = "ValueError"
    /\ ret[1].target = world.target

\* The orderings of a sequence.
Orderings(e) ==
    {[i \in DOMAIN e |-> e[f[i]]] :
        f \in {g \in [DOMAIN e -> DOMAIN e] : \A i, j \in DOMAIN e : i # j => g[i] # g[j]}}

RECURSIVE Upward(_)
Upward(directory) ==
    (IF is_file(world.fs, Append(directory, ".env"))
     THEN <<PathStr(Append(directory, ".env"))>> ELSE <<>>)
    \o (IF directory = <<>> THEN <<>>
        ELSE Upward(SubSeq(directory, 1, Len(directory) - 1)))

\* The fallback location of the platform: under XDG_CONFIG_HOME on Linux,
\* under the vendor/application directory of the home root on macOS and of
\* the application data on Windows.
PlatformFallback ==
    CASE world.platform = "linux" -> "/home/cfg/app/.env"
      [] world.platform \in {"darwin", "win32"} -> "/home/v/a/.env"
      [] OTHER -> "None"

\* C22: dotenv() returns the upward files in order, followed by the fallback
\* only if it is a file and is not among them; no path occurs twice.
C22_DotenvPaths ==
    (pc = "done" /\ ret[1].op = "dotenv") =>
        /\ ret[1].paths =
              Upward(world.cwd)
              \o (IF /\ PlatformFallback # "None"
                     /\ is_file(world.fs, PosixPath(PlatformFallback))
                     /\ \A i \in DOMAIN Upward(world.cwd) : Upward(world.cwd)[i] # PlatformFallback
                  THEN <<PlatformFallback>> ELSE <<>>)
        /\ \A i, j \in DOMAIN ret[1].paths : i # j => ret[1].paths[i] # ret[1].paths[j]

\* The candidates of load in their order, as texts.
CandidateTexts ==
    Upward(ret[1].start_dir) \o _dotenv_paths(world.fs, world.cwd, world.platform)

\* The nested lowercase keys and the value of a line KEY=VALUE.
LineKeys(line) ==
    split(lowered(strip(SubSeq(line, 1,
        (CHOOSE i \in 1..Len(line) : SubSeq(line, i, i) = "="
            /\ \A j \in 1..i - 1 : SubSeq(line, j, j) # "=") - 1))))

IsPair(line) == \E i \in 1..Len(line) : SubSeq(line, i, i) = "="

\* C23: load parses the first candidate that is a file and nothing else:
\* last_loaded_path is that file, every key of the mapping returned is the
\* key of a line of that file and every such line is in the mapping; with no
\* candidate the mapping is empty and last_loaded_path is None.
C23_FirstFileOnly ==
    (pc = "done" /\ ret[1].op = "load") =>
        IF CandidateTexts = <<>>
        THEN /\ ret[1].last_loaded_path = "None"
             /\ ret[1].error = NoError
             /\ ret[1].mapping.items = <<>>
        ELSE /\ ret[1].last_loaded_path = CandidateTexts[1]
             /\ LET lines == world.fs[PosixPath(CandidateTexts[1])].lines
                    pairs == {i \in DOMAIN lines : IsPair(lines[i])}
                IN  IF \E i \in DOMAIN lines :
                          ~IsPair(lines[i]) /\ ~startswith(lines[i], "#")
                    THEN ret[1].error.type = "InvalidFormat"
                    ELSE /\ ret[1].error = NoError
                         /\ ScalarPaths(ret[1].mapping) = {LineKeys(lines[i]) : i \in pairs}

\* Two files on the way up: the nearer one is loaded, the keys of the
\* farther one are not in the result.
C23_Witness ==
    /\ pc = "done"
    /\ ret[1].op = "load"
    /\ Len(CandidateTexts) >= 2
    /\ CandidateTexts[1] # CandidateTexts[2]
    /\ ret[1].error = NoError
    /\ ret[1].last_loaded_path = CandidateTexts[1]
    /\ ScalarPaths(ret[1].mapping) = {<<"a">>}
    /\ world.fs[PosixPath(CandidateTexts[2])].lines = <<"# c", "B__C = '2' # d">>

\* The destination of the i-th target of the call.
Destination(i) ==
    _resolve_destination(world.platform, world.env, lowered(world.targets[i]))

\* The destinations the call is to write, in target order: with force every
\* one, without force those that no file occupied before the call and no
\* earlier target of the call has filled; `spared` are never written.
Written(spared) ==
    LET keep(i) == /\ Destination(i) \notin spared
                   /\ \/ world.force
                      \/ /\ Destination(i) \notin DOMAIN world.fs
                         /\ \A j \in 1..i - 1 : Destination(j) # Destination(i)
        F[i \in 0..Len(world.targets)] ==
            IF i = 0 THEN <<>>
            ELSE IF keep(i) THEN Append(F[i - 1], Destination(i)) ELSE F[i - 1]
    IN  F[Len(world.targets)]

DeployRule(spared) ==
    /\ ret[1].created = Written(spared)
    /\ \A p \in DOMAIN world.fs : p \in DOMAIN ret[1].fs
    /\ \A p \in DOMAIN ret[1].fs :
          IF \E i \in DOMAIN ret[1].created : ret[1].created[i] = p
          THEN ret[1].fs[p] = world.fs[world.source]
          ELSE p \in DOMAIN world.fs /\ ret[1].fs[p] = world.fs[p]
    /\ \A i \in DOMAIN world.targets :
          (Destination(i) \in DOMAIN world.fs /\ Destination(i) \notin spared) =>
              IF world.force
              THEN /\ ret[1].fs[Destination(i)] = world.fs[world.source]
                   /\ \E k \in DOMAIN ret[1].created : ret[1].created[k] = Destination(i)
              ELSE /\ ret[1].fs[Destination(i)] = world.fs[Destination(i)]
                   /\ \A k \in DOMAIN ret[1].created : ret[1].created[k] # Destination(i)

C26_RejectedBeforeIO ==
    (/\ pc = "done"
     /\ \/ world.source \notin DOMAIN world.fs
        \/ \E i \in DOMAIN world.targets : lowered(world.targets[i]) \notin _VALID_TARGETS) =>
        /\ ret[1].error # NoError
        /\ ret[1].fs = world.fs

\* C27: every file the call wrote for a target is afterwards among the paths
\* the resolver of the same platform and environment returns for that layer.
C27_MirrorsResolver ==
    (pc = "done" /\ ret[1].error = NoError) =>
        \A i \in DOMAIN world.targets :
            (\E k \in DOMAIN ret[1].created : ret[1].created[k] = Destination(i)) =>
                \E k \in DOMAIN _platform_paths(ret[1].fs, world.env, world.platform,
                                                lowered(world.targets[i])) :
                    _platform_paths(ret[1].fs, world.env, world.platform,
                                    lowered(world.targets[i]))[k] = Destination(i)

====
